---- MODULE Spec2Model ----
(***************************************************************************)
(* Position-mapping and redline-application engine of vibe-legal-redliner  *)
(* (adeu.redline.mapper.DocumentMapper, adeu.redline.engine.RedlineEngine, *)
(* adeu.utils.docx).                                                       *)
(*                                                                         *)
(* The document tree is a heap of element nodes: heap[n] is the element    *)
(* with node number n, `kids' its children in order and `parent' its       *)
(* parent (0 when the element is detached from the tree).  Python object   *)
(* references (a TextSpan's run, an anchor run) are node numbers, so a     *)
(* reference held by a stale span keeps pointing at the same element.      *)
(* Text is a sequence of one-character strings; offsets are 0-based as in  *)
(* the source.                                                             *)
(***************************************************************************)
EXTENDS Integers, Sequences, FiniteSets, TLC

VARIABLES
    heap,             \* the lxml trees of the loaded package (all parts)
    current_id,       \* RedlineEngine.current_id
    mapper,           \* RedlineEngine.mapper (raw view): [spans, full_text, clean_view]
    clean_mapper,     \* RedlineEngine.clean_mapper: a mapper or NoMapper
    pc,               \* where the engine is: "idle", or inside apply_edits in the
                      \* "indexed" or "heuristic" loop, or "raised" when an
                      \* exception left apply_edits
    indexed_edits,    \* apply_edits local: indexed edits still to apply
    unindexed_edits,  \* apply_edits local: unindexed edits still to apply
    applied,          \* apply_edits local
    skipped,          \* apply_edits local
    result,           \* the last value returned by an entry point, <<>> before
    doc,              \* history: the tree the engine was constructed on
    batch,            \* history: the edits of the current or last apply_edits call
    text0,            \* history: the raw logical text of the tree at batch start
    trace,            \* history: the edits of the batch in the order processed
    log,              \* history: what each call of _apply_single_edit_indexed did
    issued,           \* history: the change ids issued, in order
    stale,            \* history: a mapper was consulted that no longer matches the tree
    ops,              \* history: edits and review actions submitted so far
    call,             \* a call of a module-level function: [fn, args, ret], or NoCall
    comments_manager, \* RedlineEngine.comments_manager: the four comment parts
                      \* and next_id
    added,            \* history: the add_comment calls made, in order
    stored_engine,    \* pipeline._engine: None or the engine prepare stored
    original_bytes,   \* pipeline._original_bytes: None or the bytes prepare was given
    returned          \* the last call of the pipeline: its arguments and its outcome

engine_vars ==
    <<heap, current_id, mapper, clean_mapper, pc, indexed_edits, unindexed_edits,
      applied, skipped, result, doc, batch, text0, trace, log, issued, stale, ops>>

fn_vars == <<call>>

comment_vars == <<comments_manager, added>>

pipeline_vars == <<stored_engine, original_bytes, returned>>

vars == <<engine_vars, fn_vars, comment_vars, pipeline_vars>>

-----------------------------------------------------------------------------
(* Sequence and text helpers                                               *)

Min(a, b) == IF a < b THEN a ELSE b
Max(a, b) == IF a > b THEN a ELSE b

\* Python s[a:b] for 0 <= a, with b clamped to len(s)
Slice(s, a, b) == SubSeq(s, a + 1, Min(b, Len(s)))
\* Python s[a:]
From(s, a) == SubSeq(s, a + 1, Len(s))

RECURSIVE Concat(_)
Concat(ss) == IF ss = <<>> THEN <<>> ELSE Head(ss) \o Concat(Tail(ss))

RECURSIVE Join(_, _)
Join(ss, sep) ==
    IF ss = <<>> THEN <<>>
    ELSE IF Len(ss) = 1 THEN ss[1]
    ELSE ss[1] \o sep \o Join(Tail(ss), sep)

SelectIdx(s, Test(_)) == SelectSeq(s, Test)

InsertAt(s, k, x) ==                \* list.insert(k, x), 0-based, clamped
    LET j == Min(k, Len(s)) IN SubSeq(s, 1, j) \o <<x>> \o SubSeq(s, j + 1, Len(s))

RemoveElem(s, x) == SelectSeq(s, LAMBDA y : y # x)

IndexOf(s, x) ==                    \* list.index(x), 0-based; -1 when absent
    IF \E k \in 1..Len(s) : s[k] = x
    THEN (CHOOSE k \in 1..Len(s) : s[k] = x /\ \A j \in 1..(k - 1) : s[j] # x) - 1
    ELSE -1

Digit(d) ==
    CASE d = 0 -> "0" [] d = 1 -> "1" [] d = 2 -> "2" [] d = 3 -> "3"
      [] d = 4 -> "4" [] d = 5 -> "5" [] d = 6 -> "6" [] d = 7 -> "7"
      [] d = 8 -> "8" [] OTHER -> "9"

RECURSIVE IntToStr(_)
IntToStr(n) == IF n < 10 THEN <<Digit(n)>> ELSE IntToStr(n \div 10) \o <<Digit(n % 10)>>

isspace(c) == c \in {" ", "\n", "\t"}
Lower == {"a", "b", "c", "d", "e", "f", "g", "h", "x", "y", "z"}
Upper == {"A", "B", "C", "D", "E", "F", "G", "H", "X", "Y", "Z"}

\* str.find: leftmost 0-based index of needle in hay, -1 when absent
find(hay, needle) ==
    LET n == Len(needle)
        hits == {k \in 0..(Len(hay) - n) : Slice(hay, k, k + n) = needle}
    IN  IF hits = {} THEN -1 ELSE CHOOSE k \in hits : \A j \in hits : k <= j

\* str.strip() on a text
RECURSIVE lstrip(_)
lstrip(s) == IF s # <<>> /\ isspace(Head(s)) THEN lstrip(Tail(s)) ELSE s
RECURSIVE rstrip(_)
rstrip(s) == IF s # <<>> /\ isspace(s[Len(s)]) THEN rstrip(SubSeq(s, 1, Len(s) - 1)) ELSE s
strip(s) == rstrip(lstrip(s))

-----------------------------------------------------------------------------
(* The element tree                                                        *)

NoText == <<>>

\* One element.  tag: "doc" (the package), "hdr" / "body" / "ftr" (a part's
\* root), "p", "tbl", "tr", "tc", "r", "ins", "del".  id / author are the
\* w:id / w:author of a w:ins or w:del.  A run's content is `text'; dt says
\* whether it is held in w:delText (TRUE) or in w:t (FALSE); b / i are the
\* w:b / w:i of its rPr.  style is a paragraph's style name.
Node(tag, parent, kids, id, author, text, dt, b, i, style) ==
    [tag |-> tag, parent |-> parent, kids |-> kids, id |-> id, author |-> author,
     text |-> text, dt |-> dt, b |-> b, i |-> i, style |-> style]

Elem(tag, parent, kids) == Node(tag, parent, kids, 0, NoText, NoText, FALSE, FALSE, FALSE, "")
ParaN(parent, kids, style) == Node("p", parent, kids, 0, NoText, NoText, FALSE, FALSE, FALSE, style)
RunN(parent, text, b, i) == Node("r", parent, <<>>, 0, NoText, text, FALSE, b, i, "")
DelRunN(parent, text, b, i) == Node("r", parent, <<>>, 0, NoText, text, TRUE, b, i, "")
ChgN(tag, parent, kids, id, author) == Node(tag, parent, kids, id, author, NoText, FALSE, FALSE, FALSE, "")

DocRoot == 1    \* heap[1] is the package; its kids are the parts in iteration order

\* lxml: element.getparent()
getparent(h, n) == h[n].parent

\* lxml: parent.index(child), 0-based
index(h, p, n) == IndexOf(h[p].kids, n)

\* unlink n from its parent (lxml moves an element that is inserted elsewhere)
Detach(h, n) ==
    LET p == h[n].parent IN
    IF p = 0 THEN h
    ELSE [h EXCEPT ![p].kids = RemoveElem(@, n), ![n].parent = 0]

\* lxml: parent.remove(child)
remove(h, p, n) == IF h[n].parent = p /\ p # 0 THEN Detach(h, n) ELSE h

\* lxml: parent.insert(k, child)
insert(h, p, k, n) ==
    LET h1 == Detach(h, n) IN
    [h1 EXCEPT ![p].kids = InsertAt(@, k, n), ![n].parent = p]

\* lxml: parent.append(child)
append(h, p, n) == insert(h, p, Len(h[p].kids), n)

\* lxml: parent.replace(old, new)
replace(h, p, old, new) ==
    LET k == index(h, p, old)
        h1 == Detach(h, new)
    IN  [h1 EXCEPT ![p].kids = SubSeq(@, 1, k) \o <<new>> \o SubSeq(@, k + 2, Len(@)),
                   ![old].parent = 0, ![new].parent = p]

\* lxml: element.addnext(new); on an element without a parent the new
\* element only becomes a sibling outside the document tree
addnext(h, n, new) ==
    LET p == h[n].parent IN
    IF p = 0 THEN Detach(h, new) ELSE insert(h, p, index(h, p, n) + 1, new)

\* allocate a new element; its node number is Len(heap) + 1
NewNode(h, node) == Append(h, node)

\* descendants of n in document order (pre-order), n excluded
RECURSIVE Descendants(_, _)
RECURSIVE DescList(_, _)
DescList(h, ks) ==
    IF ks = <<>> THEN <<>>
    ELSE <<Head(ks)>> \o Descendants(h, Head(ks)) \o DescList(h, Tail(ks))
Descendants(h, n) == DescList(h, h[n].kids)

\* iter_document_parts: headers, main body, footers
iter_document_parts(h) == h[DocRoot].kids

BodyPart(h) == CHOOSE n \in 1..Len(h) : h[n].tag = "body" /\ h[n].parent = DocRoot

\* doc.element.xpath("//w:<tag>"): doc.element is the root of the main
\* document part, so only that part is searched
xpath_tag(h, tag) == SelectSeq(Descendants(h, BodyPart(h)), LAMBDA n : h[n].tag = tag)

\* doc.element.xpath("//w:<tag>[@w:id='<id>']")
xpath_tag_id(h, tag, id) ==
    SelectSeq(Descendants(h, BodyPart(h)), LAMBDA n : h[n].tag = tag /\ h[n].id = id)

\* every element of the package's trees, all parts
AllInTree(h) == Descendants(h, DocRoot)

\* python-docx Run.text getter: w:t content only, w:delText is not read
run_text(h, n) == IF h[n].dt THEN NoText ELSE h[n].text

\* python-docx Run.text setter: clears the run's content, then adds a w:t
set_run_text(h, n, t) == [h EXCEPT ![n].text = t, ![n].dt = FALSE]

\* adeu.utils.docx.get_run_text: w:t and w:delText
get_run_text(h, n) == h[n].text

\* adeu.utils.docx.get_run_style_markers
get_run_style_markers(h, n) ==
    LET p1 == IF h[n].b THEN <<"*", "*">> ELSE <<>>
        s1 == IF h[n].b THEN <<"*", "*">> ELSE <<>>
        p2 == IF h[n].i THEN p1 \o <<"_">> ELSE p1
        s2 == IF h[n].i THEN <<"_">> \o s1 ELSE s1
    IN  <<p2, s2>>

\* python-docx Paragraph.runs: the w:r children of the paragraph
para_runs(h, p) == SelectSeq(h[p].kids, LAMBDA n : h[n].tag = "r")

\* python-docx Paragraph.text
para_text(h, p) == Concat([k \in 1..Len(para_runs(h, p)) |-> run_text(h, para_runs(h, p)[k])])

\* str.isupper: at least one cased character and no lowercase one
isupper(s) ==
    /\ \E k \in 1..Len(s) : s[k] \in Upper
    /\ \A k \in 1..Len(s) : s[k] \notin Lower

HeadingLimit == 100    \* get_paragraph_prefix: "short" means fewer characters than this

\* adeu.utils.docx.get_paragraph_prefix (styles of the model: "Normal",
\* "Heading 1", "Heading 2", "Title"; no outline level set)
get_paragraph_prefix(h, p) ==
    LET style_name == h[p].style
        text == strip(para_text(h, p))
        runs == SelectSeq(para_runs(h, p), LAMBDA n : strip(run_text(h, n)) # <<>>)
        is_bold == runs # <<>> /\ h[runs[1]].b
    IN  IF style_name = "" THEN <<>>
        ELSE IF style_name = "Heading 1" THEN <<"#", " ">>
        ELSE IF style_name = "Heading 2" THEN <<"#", "#", " ">>
        ELSE IF style_name = "Title" THEN <<"#", " ">>
        ELSE IF style_name = "Normal" /\ text # <<>> /\ Len(text) < HeadingLimit
                /\ isupper(text) /\ is_bold
             THEN <<"#", "#", " ">>
        ELSE <<>>

\* adeu.utils.docx.iter_paragraph_content: runs and markup events of a
\* paragraph, in document order
RunItem(n) == [kind |-> "run", run |-> n, type |-> "", id |-> 0, author |-> NoText]
DocxEvent(type, id, author) == [kind |-> "event", run |-> 0, type |-> type, id |-> id, author |-> author]

ins_subitems(h, ks) ==
    Concat([k \in 1..Len(ks) |->
        IF h[ks[k]].tag = "r" THEN <<RunItem(ks[k])>>
        ELSE IF h[ks[k]].tag = "commentRangeStart" THEN <<DocxEvent("start", h[ks[k]].id, NoText)>>
        ELSE IF h[ks[k]].tag = "commentRangeEnd" THEN <<DocxEvent("end", h[ks[k]].id, NoText)>>
        ELSE <<>>])

del_subitems(h, ks) ==
    Concat([k \in 1..Len(ks) |-> IF h[ks[k]].tag = "r" THEN <<RunItem(ks[k])>> ELSE <<>>])

iter_paragraph_content(h, p) ==
    LET ks == h[p].kids IN
    Concat([k \in 1..Len(ks) |->
        LET c == ks[k] IN
        IF h[c].tag = "r" THEN <<RunItem(c)>>
        ELSE IF h[c].tag = "ins"
             THEN <<DocxEvent("ins_start", h[c].id, h[c].author)>>
                  \o ins_subitems(h, h[c].kids)
                  \o <<DocxEvent("ins_end", h[c].id, NoText)>>
        ELSE IF h[c].tag = "del"
             THEN <<DocxEvent("del_start", h[c].id, h[c].author)>>
                  \o del_subitems(h, h[c].kids)
                  \o <<DocxEvent("del_end", h[c].id, NoText)>>
        ELSE IF h[c].tag = "commentRangeStart" THEN <<DocxEvent("start", h[c].id, NoText)>>
        ELSE IF h[c].tag = "commentRangeEnd" THEN <<DocxEvent("end", h[c].id, NoText)>>
        ELSE <<>>])

-----------------------------------------------------------------------------
(* DocumentMapper: the span list and the logical text                      *)

NL2 == <<"\n", "\n">>

TextSpan(start, end, text, run, ins_id, del_id) ==
    [start |-> start, end |-> end, text |-> text, run |-> run,
     ins_id |-> ins_id, del_id |-> del_id]

\* Offsets are never negative.  The loops below read the running offset of
\* their accumulator before they go on, which makes TLC evaluate the
\* accumulator at every step instead of building one long chain.
Started(acc) == acc.cur >= 0

\* a variant of _add_virtual_text that records the span and leaves
\* full_text as it is; the span texts then no longer add up to full_text
add_virtual_text_span_only(acc, text, offset) ==
    [acc EXCEPT !.spans = Append(@, TextSpan(offset, offset + Len(text), text, 0, 0, 0))]

\* DocumentMapper._add_virtual_text: a span without a run, at `offset'
add_virtual_text(acc, text, offset) ==
    [acc EXCEPT !.spans = Append(@, TextSpan(offset, offset + Len(text), text, 0, 0, 0)),
                !.full_text = @ \o text]

\* DocumentMapper._get_wrappers
get_wrappers(ins_id, del_id, active_ids) ==
    IF del_id # 0 THEN << <<"{", "-", "-">>, <<"-", "-", "}">> >>
    ELSE IF ins_id # 0 THEN << <<"{", "+", "+">>, <<"+", "+", "}">> >>
    ELSE IF active_ids # {} THEN << <<"{", "=", "=">>, <<"=", "=", "}">> >>
    ELSE << <<>>, <<>> >>

Unknown == <<"U", "n", "k", "n", "o", "w", "n">>

\* DocumentMapper._build_merged_meta_block: one "[Chg:id] author" line per
\* change id, first occurrence only (the documents of the model carry no
\* comment bodies, so comments_map is empty and no comment line is produced)
RECURSIVE change_lines(_, _)
change_lines(entries, seen) ==
    IF entries = <<>> THEN <<>>
    ELSE LET e == Head(entries) IN
         IF e.id \in seen THEN change_lines(Tail(entries), seen)
         ELSE << <<"[", "C", "h", "g", ":">> \o IntToStr(e.id) \o <<"]", " ">>
                 \o (IF e.author = <<>> THEN Unknown ELSE e.author) >>
              \o change_lines(Tail(entries), seen \cup {e.id})

build_merged_meta_block(states_list) ==
    LET entries == Concat([k \in 1..Len(states_list) |->
                      (IF states_list[k].ins.id # 0 THEN <<states_list[k].ins>> ELSE <<>>)
                      \o (IF states_list[k].del.id # 0 THEN <<states_list[k].del>> ELSE <<>>)])
    IN  Join(change_lines(entries, {}), <<"\n">>)

NoEvent == [id |-> 0, author |-> NoText]

\* the run_parts of one run: (kind, text, run)
Part(kind, txt, run) == [kind |-> kind, txt |-> txt, run |-> run]

\* str.split("\n")
RECURSIVE split_nl(_, _)
split_nl(s, cur) ==
    IF s = <<>> THEN <<cur>>
    ELSE IF Head(s) = "\n" THEN <<cur>> \o split_nl(Tail(s), <<>>)
    ELSE split_nl(Tail(s), Append(cur, Head(s)))

run_parts(h, n) ==
    LET mk == get_run_style_markers(h, n)
        prefix == mk[1]
        suffix == mk[2]
        text == get_run_text(h, n)
        has_nl == \E k \in 1..Len(text) : text[k] = "\n"
        parts == split_nl(text, <<>>)
    IN  IF has_nl /\ (prefix # <<>> \/ suffix # <<>>)
        THEN Concat([k \in 1..Len(parts) |->
                (IF k > 1 THEN <<Part("real", <<"\n">>, n)>> ELSE <<>>)
                \o (IF parts[k] # <<>>
                    THEN (IF prefix # <<>> THEN <<Part("virtual", prefix, 0)>> ELSE <<>>)
                         \o <<Part("real", parts[k], n)>>
                         \o (IF suffix # <<>> THEN <<Part("virtual", suffix, 0)>> ELSE <<>>)
                    ELSE <<>>)])
        ELSE (IF prefix # <<>> THEN <<Part("virtual", prefix, 0)>> ELSE <<>>)
             \o (IF text # <<>> THEN <<Part("real", text, n)>> ELSE <<>>)
             \o (IF suffix # <<>> THEN <<Part("virtual", suffix, 0)>> ELSE <<>>)

\* a virtual span at the running offset, which moves past it
Emit(acc, text) == [add_virtual_text(acc, text, acc.cur) EXCEPT !.cur = @ + Len(text)]

EmitIf(acc, text) == IF text # <<>> THEN Emit(acc, text) ELSE acc

\* one buffered part written out: a virtual part as a virtual span, a real
\* part as a span owned by its run
emit_part(st, q) ==
    IF q.kind = "virtual" THEN Emit(st, q.txt)
    ELSE [st EXCEPT !.spans = Append(@, TextSpan(st.cur, st.cur + Len(q.txt), q.txt,
                                                 q.run, q.ins_id, q.del_id)),
                    !.full_text = @ \o q.txt,
                    !.cur = @ + Len(q.txt)]

RECURSIVE emit_parts(_, _)
emit_parts(st, pending) ==
    IF pending = <<>> \/ ~Started(st) THEN st
    ELSE emit_parts(emit_part(st, Head(pending)), Tail(pending))

\* "Flush pending": start token, buffered parts, end token
flush_pending(st) ==
    EmitIf(emit_parts(EmitIf(st, st.wrappers[1]), st.pending), st.wrappers[2])

NoWrappers == << <<>>, <<>> >>

\* "if pending_runs: flush; pending_runs = []; current_wrappers = ('', '')"
flush_and_clear(st) ==
    IF st.pending # <<>>
    THEN [flush_pending(st) EXCEPT !.pending = <<>>, !.wrappers = NoWrappers]
    ELSE st

\* the one-step lookahead of the metadata deferral
RECURSIVE lookahead(_, _, _, _)
lookahead(items, j, temp_ins, temp_del) ==
    IF j > Len(items) THEN FALSE
    ELSE LET it == items[j] IN
         IF it.kind = "run" THEN (temp_ins \/ temp_del)
         ELSE lookahead(items, j + 1,
                  IF it.type = "ins_start" THEN TRUE
                  ELSE IF it.type = "ins_end" THEN FALSE ELSE temp_ins,
                  IF it.type = "del_start" THEN TRUE
                  ELSE IF it.type = "del_end" THEN FALSE ELSE temp_del)

emit_meta(st, meta_block) ==
    EmitIf(st, IF meta_block # <<>>
               THEN <<"{", ">", ">">> \o meta_block \o <<"<", "<", "}">>
               ELSE <<>>)

flush_meta(st) == emit_meta(st, build_merged_meta_block(st.deferred))

\* one Run item of the paragraph loop, first half: the run's parts join the
\* buffer, which is flushed first when the wrappers change
buffer_run(st, rp, clean_view) ==
    LET full_seg_text == Concat([j \in 1..Len(rp) |-> rp[j].txt])
        buf == [j \in 1..Len(rp) |->
                   [kind |-> rp[j].kind, txt |-> rp[j].txt, run |-> rp[j].run,
                    ins_id |-> st.ins.id, del_id |-> st.del.id]]
        new_wrappers == IF clean_view THEN NoWrappers
                        ELSE get_wrappers(st.ins.id, st.del.id, st.active_ids)
    IN  IF full_seg_text # <<>> /\ ~(clean_view /\ st.del.id # 0)
        THEN IF st.pending # <<>> /\ new_wrappers = st.wrappers
             THEN [st EXCEPT !.pending = @ \o buf]
             ELSE [(IF st.pending # <<>> THEN flush_pending(st) ELSE st)
                     EXCEPT !.wrappers = new_wrappers, !.pending = buf]
        ELSE st

\* "deferred_meta_states.append(...)"
defer_meta(st) ==
    [st EXCEPT !.deferred = Append(@, [ins |-> st.ins, del |-> st.del,
                                       active_ids |-> st.active_ids])]

\* second half: the metadata of the run is deferred while the next run is
\* still inside a tracked change, and written out otherwise
after_run(items, k, st, clean_view) ==
    IF clean_view THEN st
    ELSE IF (st.ins.id # 0 \/ st.del.id # 0)
            /\ lookahead(items, k + 1, st.ins.id # 0, st.del.id # 0)
    THEN defer_meta(st)
    ELSE [flush_meta(flush_and_clear(defer_meta(st))) EXCEPT !.deferred = <<>>]

map_run_item(h, items, k, st, clean_view) ==
    after_run(items, k, buffer_run(st, run_parts(h, items[k].run), clean_view), clean_view)

\* the tracking state after one DocxEvent
track_event(it, st) ==
    IF it.type = "start" THEN [st EXCEPT !.active_ids = @ \cup {it.id}]
    ELSE IF it.type = "end" THEN [st EXCEPT !.active_ids = @ \ {it.id}]
    ELSE IF it.type = "ins_start" THEN [st EXCEPT !.ins = [id |-> it.id, author |-> it.author]]
    ELSE IF it.type = "ins_end" THEN [st EXCEPT !.ins = NoEvent]
    ELSE IF it.type = "del_start" THEN [st EXCEPT !.del = [id |-> it.id, author |-> it.author]]
    ELSE IF it.type = "del_end" THEN [st EXCEPT !.del = NoEvent]
    ELSE st

\* one DocxEvent item of the paragraph loop
map_event_item(it, st) == track_event(it, flush_and_clear(st))

map_item(h, items, k, st, clean_view) ==
    IF items[k].kind = "run"
    THEN map_run_item(h, items, k, st, clean_view)
    ELSE map_event_item(items[k], st)

RECURSIVE map_items(_, _, _, _, _)
map_items(h, items, k, st, clean_view) ==
    IF k > Len(items) \/ ~Started(st) THEN st
    ELSE map_items(h, items, k + 1, map_item(h, items, k, st, clean_view), clean_view)

\* the state of the paragraph loop on entry
para_state(acc) ==
    [spans |-> acc.spans, full_text |-> acc.full_text, cur |-> acc.cur,
     active_ids |-> {}, ins |-> NoEvent, del |-> NoEvent,
     deferred |-> <<>>, wrappers |-> NoWrappers, pending |-> <<>>]

\* "Final Flush"
final_flush(st) ==
    IF st.pending # <<>> THEN flush_pending(st) ELSE st

final_meta(st) ==
    IF st.deferred # <<>> THEN flush_meta(st) ELSE st

Acc(st) == [spans |-> st.spans, full_text |-> st.full_text, cur |-> st.cur]

\* DocumentMapper._map_paragraph_content
map_paragraph_content(h, p, acc, clean_view) ==
    Acc(final_meta(final_flush(
        map_items(h, iter_paragraph_content(h, p), 1, para_state(acc), clean_view))))

LastIsNL2(acc) == acc.spans # <<>> /\ acc.spans[Len(acc.spans)].text = NL2

\* adeu.utils.docx.iter_block_items
iter_block_items(h, c) == SelectSeq(h[c].kids, LAMBDA n : h[n].tag \in {"p", "tbl"})

RECURSIVE map_block_list(_, _, _, _)
RECURSIVE map_table(_, _, _, _)
RECURSIVE map_rows(_, _, _, _, _)
RECURSIVE map_cells(_, _, _, _, _)

\* DocumentMapper._map_blocks
map_blocks(h, container, acc, clean_view) ==
    map_block_list(h, iter_block_items(h, container), acc, clean_view)

\* "\n\n" after a block that produced text and did not end with it
end_block(acc) ==
    IF acc.spans # <<>> /\ ~LastIsNL2(acc) THEN Emit(acc, NL2) ELSE acc

map_block(h, item, acc, clean_view) ==
    IF h[item].tag = "p"
    THEN Emit(map_paragraph_content(h, item,
                  EmitIf(acc, get_paragraph_prefix(h, item)), clean_view), NL2)
    ELSE end_block(map_table(h, item, acc, clean_view))

map_block_list(h, items, acc, clean_view) ==
    IF items = <<>> \/ ~Started(acc) THEN acc
    ELSE map_block_list(h, Tail(items), map_block(h, Head(items), acc, clean_view), clean_view)

\* DocumentMapper._map_table
map_table(h, t, acc, clean_view) ==
    map_rows(h, SelectSeq(h[t].kids, LAMBDA n : h[n].tag = "tr"), 0, acc, clean_view)

map_rows(h, rows, rows_processed, acc, clean_view) ==
    IF rows = <<>> \/ ~Started(acc) THEN acc
    ELSE map_rows(h, Tail(rows), rows_processed + 1,
             map_cells(h, SelectSeq(h[Head(rows)].kids, LAMBDA n : h[n].tag = "tc"), 0,
                       EmitIf(acc, IF rows_processed > 0 THEN <<"\n">> ELSE <<>>),
                       clean_view),
             clean_view)

map_cells(h, cells, cells_processed, acc, clean_view) ==
    IF cells = <<>> \/ ~Started(acc) THEN acc
    ELSE map_cells(h, Tail(cells), cells_processed + 1,
             map_blocks(h, Head(cells),
                        EmitIf(acc, IF cells_processed > 0 THEN <<" ", "|", " ">> ELSE <<>>),
                        clean_view),
             clean_view)

RECURSIVE map_parts(_, _, _, _)
map_parts(h, parts, acc, clean_view) ==
    IF parts = <<>> \/ ~Started(acc) THEN acc
    ELSE map_parts(h, Tail(parts), end_block(map_blocks(h, Head(parts), acc, clean_view)),
                   clean_view)

\* "Cleanup trailing newlines"
RECURSIVE trim_trailing(_)
trim_trailing(acc) ==
    IF LastIsNL2(acc)
    THEN trim_trailing([acc EXCEPT !.spans = SubSeq(@, 1, Len(@) - 1),
                                   !.full_text = SubSeq(@, 1, Len(@) - 2)])
    ELSE acc

MapperOf(acc, clean_view) ==
    [spans |-> acc.spans, full_text |-> acc.full_text, clean_view |-> clean_view]

\* DocumentMapper._build_map
build_map(h, clean_view) ==
    MapperOf(trim_trailing(map_parts(h, iter_document_parts(h),
                                     [spans |-> <<>>, full_text |-> <<>>, cur |-> 0],
                                     clean_view)),
             clean_view)

\* a rebuild that keeps what the mapper held
reset_map_kept(m) == [spans |-> m.spans, full_text |-> m.full_text, cur |-> Len(m.full_text)]

\* "current_offset = 0; self.spans = []; self.full_text = ''" on a mapper
\* that holds an earlier map
reset_map(m) == [spans |-> <<>>, full_text |-> <<>>, cur |-> 0]

\* self._build_map() on an existing mapper
rebuild_map(m, h, clean_view) ==
    MapperOf(trim_trailing(map_parts(h, iter_document_parts(h), reset_map(m), clean_view)),
             clean_view)

NoMapper == [spans |-> <<>>, full_text |-> <<"?">>, clean_view |-> "none"]

-----------------------------------------------------------------------------
(* Matching                                                                *)

\* curly quotes are the one-character tokens "LDQ", "RDQ", "LSQ", "RSQ"
replace_smart_quotes(text) ==
    [k \in 1..Len(text) |->
        IF text[k] \in {"LDQ", "RDQ"} THEN "\""
        ELSE IF text[k] \in {"LSQ", "RSQ"} THEN "'"
        ELSE text[k]]

\* DocumentMapper._make_fuzzy_regex: the pattern as a list of parts: a
\* literal character, "_+", "\s+", or a quote class
RECURSIVE make_fuzzy_regex_from(_)
make_fuzzy_regex_from(t) ==
    IF t = <<>> THEN <<>>
    ELSE LET c == Head(t)
         IN  IF c = "_"
             THEN LET rest == make_fuzzy_regex_from(Tail(t)) IN
                  IF rest # <<>> /\ rest[1].k = "us" THEN rest
                  ELSE <<[k |-> "us", c |-> ""]>> \o rest
             ELSE IF isspace(c)
             THEN LET rest == make_fuzzy_regex_from(Tail(t)) IN
                  IF rest # <<>> /\ rest[1].k = "ws" THEN rest
                  ELSE <<[k |-> "ws", c |-> ""]>> \o rest
             ELSE IF c = "'" THEN <<[k |-> "sq", c |-> ""]>> \o make_fuzzy_regex_from(Tail(t))
             ELSE IF c = "\"" THEN <<[k |-> "dq", c |-> ""]>> \o make_fuzzy_regex_from(Tail(t))
             ELSE <<[k |-> "lit", c |-> c]>> \o make_fuzzy_regex_from(Tail(t))

make_fuzzy_regex(target_text) == make_fuzzy_regex_from(replace_smart_quotes(target_text))

\* length of the run of characters of a class starting at 0-based pos
in_class(c, cls) == IF cls = "us" THEN c = "_" ELSE isspace(c)

RECURSIVE run_len(_, _, _)
run_len(text, pos, cls) ==
    IF pos < Len(text) /\ in_class(text[pos + 1], cls)
    THEN 1 + run_len(text, pos + 1, cls) ELSE 0

\* re: match the parts from k on at pos (greedy, backtracking); the end
\* position of the match or -1
RECURSIVE re_match(_, _, _, _)
re_match(parts, k, text, pos) ==
    IF k > Len(parts) THEN pos
    ELSE LET q == parts[k] IN
         IF q.k = "lit"
         THEN IF pos < Len(text) /\ text[pos + 1] = q.c
              THEN re_match(parts, k + 1, text, pos + 1) ELSE -1
         ELSE IF q.k = "sq"
         THEN IF pos < Len(text) /\ text[pos + 1] \in {"'", "LSQ", "RSQ"}
              THEN re_match(parts, k + 1, text, pos + 1) ELSE -1
         ELSE IF q.k = "dq"
         THEN IF pos < Len(text) /\ text[pos + 1] \in {"\"", "LDQ", "RDQ"}
              THEN re_match(parts, k + 1, text, pos + 1) ELSE -1
         ELSE LET r == run_len(text, pos, q.k)
                  ok == {j \in 1..r : re_match(parts, k + 1, text, pos + j) # -1}
              IN  IF ok = {} THEN -1
                  ELSE re_match(parts, k + 1, text, pos + (CHOOSE j \in ok : \A j2 \in ok : j2 <= j))

\* re.search: leftmost match; <<start, end>> or <<-1, -1>>
leftmost(parts, text, hits) ==
    IF hits = {} THEN <<-1, -1>>
    ELSE <<CHOOSE pos \in hits : \A p2 \in hits : pos <= p2,
           re_match(parts, 1, text, CHOOSE pos \in hits : \A p2 \in hits : pos <= p2)>>

re_search(parts, text) ==
    leftmost(parts, text, {pos \in 0..Len(text) : re_match(parts, 1, text, pos) # -1})

\* the strategies in another order: quote-normalised before exact
first_match_normalised_first(exact, norm, fz, length) ==
    IF norm # -1 THEN <<norm, length>>
    ELSE IF exact # -1 THEN <<exact, length>>
    ELSE IF fz[1] # -1 THEN <<fz[1], fz[2] - fz[1]>>
    ELSE <<-1, 0>>

\* the three strategies of find_match_index in turn
first_match(exact, norm, fz, length) ==
    IF exact # -1 THEN <<exact, length>>
    ELSE IF norm # -1 THEN <<norm, length>>
    ELSE IF fz[1] # -1 THEN <<fz[1], fz[2] - fz[1]>>
    ELSE <<-1, 0>>

\* DocumentMapper.find_match_index: <<start_index, match_length>>
find_match_index(m, target_text) ==
    first_match(find(m.full_text, target_text),
                find(replace_smart_quotes(m.full_text), replace_smart_quotes(target_text)),
                re_search(make_fuzzy_regex(target_text), m.full_text),
                Len(target_text))

\* which strategy of find_match_index produced the result
match_strategy(m, target_text) ==
    IF find(m.full_text, target_text) # -1 THEN "exact"
    ELSE IF find(replace_smart_quotes(m.full_text), replace_smart_quotes(target_text)) # -1
         THEN "quotes"
    ELSE IF re_search(make_fuzzy_regex(target_text), m.full_text)[1] # -1 THEN "fuzzy"
    ELSE "none"

-----------------------------------------------------------------------------
(* Resolving offsets to runs.  An engine state E is the record               *)
(* [heap, cid, m, cm, issued]: the tree, current_id, the raw mapper, the     *)
(* clean mapper (or NoMapper) and the history of issued change ids.  A       *)
(* mapper object is named by "raw" or "clean".                               *)

Mp(E, which) == IF which = "clean" THEN E.cm ELSE E.m

Rebuild(E, which) ==
    IF which = "clean" THEN [E EXCEPT !.cm = rebuild_map(E.cm, E.heap, TRUE)]
    ELSE [E EXCEPT !.m = rebuild_map(E.m, E.heap, FALSE)]

\* the new run goes right after the run it was split from
attach_right(h, run) == [heap |-> addnext(h, run, Len(h)), left |-> run, right |-> Len(h)]

\* DocumentMapper._split_run_at_index: [heap, left, right]
split_run_at_index(h, run, split_index) ==
    attach_right(NewNode(set_run_text(h, run, Slice(run_text(h, run), 0, split_index)),
                         [h[run] EXCEPT !.text = From(run_text(h, run), split_index),
                                        !.dt = FALSE, !.parent = 0]),
                 run)

\* DocumentMapper.get_context_at_range: the first real span of the range,
\* or NoSpan
NoSpan == TextSpan(-1, -1, <<>>, 0, 0, 0)

get_context_at_range(m, start_idx, end_idx) ==
    LET real_spans == SelectSeq(m.spans,
                          LAMBDA s : s.run # 0 /\ s.end > start_idx /\ s.start < end_idx)
    IN  IF real_spans # <<>> THEN real_spans[1] ELSE NoSpan

\* "Start Split": the first run is cut where the range begins
start_split(runs, sp) ==
    [heap |-> sp.heap, runs |-> <<sp.right>> \o SubSeq(runs, 2, Len(runs)), split |-> TRUE]

split_start(h, runs, local_start) ==
    IF local_start > 0 THEN start_split(runs, split_run_at_index(h, runs[1], local_start))
    ELSE [heap |-> h, runs |-> runs, split |-> FALSE]

\* "End Split": the last run is cut where the range ends
end_split(w, sp) ==
    [heap |-> sp.heap, runs |-> SubSeq(w.runs, 1, Len(w.runs) - 1) \o <<sp.left>>,
     split |-> TRUE]

split_end(w, local_end) ==
    IF 0 < local_end /\ local_end < Len(run_text(w.heap, w.runs[Len(w.runs)]))
    THEN end_split(w, split_run_at_index(w.heap, w.runs[Len(w.runs)], local_end))
    ELSE w

\* "if dom_modified: self._build_map()"
resolved(E, which, w) ==
    [E |-> IF w.split THEN Rebuild([E EXCEPT !.heap = w.heap], which) ELSE E,
     runs |-> w.runs]

\* DocumentMapper._resolve_runs_at_range: [E, runs]
resolve_runs_at_range(E, which, start_idx, end_idx) ==
    LET affected == SelectSeq(Mp(E, which).spans,
                        LAMBDA s : s.run # 0 /\ s.end > start_idx /\ s.start < end_idx)
        first == affected[1]
        last == affected[Len(affected)]
        local_start == start_idx - first.start
        local_end0 == Min(last.end, end_idx) - last.start
        local_end == IF Len(affected) = 1 /\ local_start > 0
                     THEN local_end0 - local_start ELSE local_end0
    IN  IF affected = <<>> THEN [E |-> E, runs |-> <<>>]
        ELSE resolved(E, which,
                 split_end(split_start(E.heap, [j \in 1..Len(affected) |-> affected[j].run],
                                       local_start),
                           local_end))

\* DocumentMapper.find_target_runs_by_index
find_target_runs_by_index(E, which, start_index, length) ==
    resolve_runs_at_range(E, which, start_index, start_index + length)

anchor_split(E, sp) == [E |-> [E EXCEPT !.heap = sp.heap], run |-> sp.left]

\* DocumentMapper.get_insertion_anchor: [E, run] (run 0 is None); a split
\* made here is not followed by a rebuild
get_insertion_anchor(E, which, idx) ==
    LET spans == Mp(E, which).spans
        preceding == SelectSeq(spans, LAMBDA s : s.end = idx)
        containing == SelectSeq(spans, LAMBDA s : s.start < idx /\ idx < s.end)
        reals == SelectSeq(spans, LAMBDA s : s.run # 0)
        preceding_gap == SelectSeq(spans, LAMBDA s : s.end < idx /\ s.run # 0)
    IN  IF preceding # <<>> /\ preceding[Len(preceding)].run # 0
        THEN [E |-> E, run |-> preceding[Len(preceding)].run]
        ELSE IF containing # <<>> /\ containing[1].run # 0
        THEN anchor_split(E, split_run_at_index(E.heap, containing[1].run,
                                                idx - containing[1].start))
        ELSE IF idx = 0 /\ spans # <<>>
        THEN [E |-> E, run |-> IF reals # <<>> THEN reals[1].run ELSE 0]
        ELSE IF preceding_gap # <<>>
        THEN [E |-> E, run |-> preceding_gap[Len(preceding_gap)].run]
        ELSE [E |-> E, run |-> 0]

-----------------------------------------------------------------------------
(* RedlineEngine: helpers                                                   *)

\* 0-based Python indexing, negative indices from the end
At(s, k) == IF k >= 0 THEN s[k + 1] ELSE s[Len(s) + k + 1]

\* re.finditer of a literal token: start offsets of the non-overlapping
\* occurrences, left to right
RECURSIVE finditer(_, _, _)
finditer(text, tok, pos) ==
    IF pos + Len(tok) > Len(text) THEN <<>>
    ELSE IF Slice(text, pos, pos + Len(tok)) = tok
         THEN <<pos>> \o finditer(text, tok, pos + Len(tok))
         ELSE finditer(text, tok, pos + 1)

\* _trim_common_context.get_unbalanced_index
get_unbalanced_index(text_slice) ==
    LET bold_indices == finditer(text_slice, <<"*", "*">>, 0)
        underscore_indices == finditer(text_slice, <<"_">>, 0)
    IN  IF Len(bold_indices) % 2 # 0 THEN bold_indices[Len(bold_indices)]
        ELSE IF Len(underscore_indices) % 2 # 0
             THEN underscore_indices[Len(underscore_indices)]
        ELSE -1

RECURSIVE common_prefix(_, _, _, _)
common_prefix(target, new_val, k, limit) ==
    IF k < limit /\ At(target, k) = At(new_val, k)
    THEN common_prefix(target, new_val, k + 1, limit) ELSE k

RECURSIVE prefix_word_boundary(_, _)
prefix_word_boundary(target, k) ==
    IF k > 0 /\ ~isspace(At(target, k - 1)) /\ ~isspace(At(target, k))
    THEN prefix_word_boundary(target, k - 1) ELSE k

RECURSIVE line_start(_, _)
line_start(target, k) ==
    IF k > 0 /\ At(target, k - 1) # "\n" THEN line_start(target, k - 1) ELSE k

RECURSIVE prefix_header(_, _, _)
prefix_header(target, prefix_len, temp_len) ==
    IF temp_len <= 0 THEN prefix_len
    ELSE IF At(target, temp_len - 1) = "#" THEN line_start(target, temp_len - 1)
    ELSE IF At(target, temp_len - 1) = "\n" THEN prefix_len
    ELSE prefix_header(target, prefix_len, temp_len - 1)

\* the prefix as it is before the delimiter check
prefix_unchecked(target, k) == k

\* "while prefix_len > 0": back to the last unbalanced marker, if any
RECURSIVE prefix_balanced(_, _)
rebalance(target, k, bad_idx) ==
    IF bad_idx # -1 THEN prefix_balanced(target, bad_idx) ELSE k

prefix_balanced(target, k) ==
    IF k > 0 THEN rebalance(target, k, get_unbalanced_index(Slice(target, 0, k))) ELSE k

RECURSIVE common_suffix(_, _, _, _)
common_suffix(target, new_val, k, limit) ==
    IF k < limit /\ At(target, -(k + 1)) = At(new_val, -(k + 1))
    THEN common_suffix(target, new_val, k + 1, limit) ELSE k

RECURSIVE suffix_word_boundary(_, _)
suffix_word_boundary(target, k) ==
    IF k > 0 /\ ~isspace(At(target, -(k + 1))) /\ ~isspace(At(target, -k))
    THEN suffix_word_boundary(target, k - 1) ELSE k

RECURSIVE suffix_balanced(_, _)
suffix_balanced(target, k) ==
    IF k > 0 /\ get_unbalanced_index(From(target, Len(target) - k)) # -1
    THEN suffix_balanced(target, k - 1) ELSE k

all_space(t) == t # <<>> /\ \A k \in 1..Len(t) : isspace(t[k])

\* the prefix moved back to a word boundary unless it consumed a whole side
word_prefix(target, new_val, p) ==
    IF p < Len(target) /\ p < Len(new_val) THEN prefix_word_boundary(target, p) ELSE p

header_prefix(target, p) == prefix_header(target, p, p)

prefix_len_of(target, new_val) ==
    prefix_balanced(target,
        header_prefix(target,
            word_prefix(target, new_val,
                common_prefix(target, new_val, 0, Min(Len(target), Len(new_val))))))

word_suffix(target, k) ==
    IF k > 0 /\ k < Len(target) THEN suffix_word_boundary(target, k) ELSE k

\* a suffix of white space only is not trimmed
kept_suffix(target, k) ==
    IF k > 0 /\ all_space(From(target, Len(target) - k)) THEN 0 ELSE k

suffix_len_of(target, new_val, prefix_len) ==
    kept_suffix(target,
        suffix_balanced(target,
            word_suffix(target,
                common_suffix(target, new_val, 0,
                    Min(Len(target) - prefix_len, Len(new_val) - prefix_len)))))

with_suffix(target, new_val, prefix_len) ==
    <<prefix_len, suffix_len_of(target, new_val, prefix_len)>>

\* engine._trim_common_context: <<prefix_len, suffix_len>>
trim_common_context(target, new_val) ==
    IF target = <<>> \/ new_val = <<>> THEN <<0, 0>>
    ELSE with_suffix(target, new_val, prefix_len_of(target, new_val))

\* the first match of (\*\*.*?\*\*)|(_.*?_) at or after pos:
\* [start, end, bold] or start = -1
RECURSIVE token_search(_, _)
token_search(text, pos) ==
    IF pos >= Len(text) THEN [start |-> -1, end |-> -1, bold |-> FALSE]
    ELSE LET nonl(a, b) == \A k \in a..(b - 1) : At(text, k) # "\n"
             bq == {q \in (pos + 2)..(Len(text) - 2) :
                       Slice(text, q, q + 2) = <<"*", "*">> /\ nonl(pos + 2, q)}
             iq == {q \in (pos + 1)..(Len(text) - 1) : At(text, q) = "_" /\ nonl(pos + 1, q)}
             least(S) == CHOOSE q \in S : \A q2 \in S : q <= q2
         IN  IF Slice(text, pos, pos + 2) = <<"*", "*">> /\ bq # {}
             THEN [start |-> pos, end |-> least(bq) + 2, bold |-> TRUE]
             ELSE IF At(text, pos) = "_" /\ iq # {}
             THEN [start |-> pos, end |-> least(iq) + 1, bold |-> FALSE]
             ELSE token_search(text, pos + 1)

\* RedlineEngine._parse_inline_markdown: list of [text, bold, italic]
RECURSIVE parse_inline_markdown(_, _, _)
parse_token(text, bold, italic, mt) ==
    IF mt.start = -1 THEN <<[text |-> text, bold |-> bold, italic |-> italic]>>
    ELSE (IF mt.start > 0
          THEN <<[text |-> Slice(text, 0, mt.start), bold |-> bold, italic |-> italic]>>
          ELSE <<>>)
         \o (IF mt.bold
             THEN parse_inline_markdown(Slice(text, mt.start + 2, mt.end - 2), TRUE, italic)
             ELSE parse_inline_markdown(Slice(text, mt.start + 1, mt.end - 1), bold, TRUE))
         \o parse_inline_markdown(From(text, mt.end), bold, italic)

parse_inline_markdown(text, bold, italic) ==
    IF text = <<>> THEN <<>> ELSE parse_token(text, bold, italic, token_search(text, 0))

max_id(ids) == CHOOSE m \in ids : \A x \in ids : x <= m

ids_of(h, els) == {h[els[k]].id : k \in 1..Len(els)}

\* RedlineEngine._scan_existing_ids
scan_existing_ids(h) ==
    max_id(ids_of(h, xpath_tag(h, "ins")) \cup ids_of(h, xpath_tag(h, "del")) \cup {0})

\* RedlineEngine._get_next_id
get_next_id(E) == [E EXCEPT !.cid = E.cid + 1, !.issued = Append(E.issued, E.cid + 1)]

\* RedlineEngine._create_track_change_tag: [E, el]
EngineAuthor == <<"E">>

new_element(E, node) ==
    [E |-> [E EXCEPT !.heap = NewNode(E.heap, node)], el |-> Len(E.heap) + 1]

create_track_change_tag(E, tag_name) ==
    new_element(get_next_id(E), ChgN(tag_name, 0, <<>>, E.cid + 1, EngineAuthor))

\* the runs of an insertion, one per parsed segment, appended to ins
RECURSIVE add_segment_runs(_, _, _, _)
add_segment_runs(h, ins, segments, anchor_run) ==
    IF segments = <<>> THEN h
    ELSE add_segment_runs(
             append(NewNode(h, RunN(0, Head(segments).text,
                                    (anchor_run # 0 /\ h[anchor_run].b) \/ Head(segments).bold,
                                    (anchor_run # 0 /\ h[anchor_run].i) \/ Head(segments).italic)),
                    ins, Len(h) + 1),
             ins, Tail(segments), anchor_run)

fill_insertion(t, segments, anchor_run) ==
    [E |-> [t.E EXCEPT !.heap = add_segment_runs(t.E.heap, t.el, segments, anchor_run)],
     el |-> t.el]

\* RedlineEngine._track_insert_inline: [E, el]
track_insert_inline(E, text, anchor_run) ==
    fill_insertion(create_track_change_tag(E, "ins"),
                   parse_inline_markdown(text, FALSE, FALSE), anchor_run)

\* a text that track_insert handles inline: one line, no heading marker
IsInlineText(text) ==
    /\ \A k \in 1..Len(text) : text[k] \notin {"\n", "\r"}
    /\ (text = <<>> \/ text[1] # "#")

\* RedlineEngine.track_insert for a single line that is not a heading
\* (re.split gives one line, _parse_markdown_style gives no style): [E, el]
track_insert(E, text, anchor_run) == track_insert_inline(E, text, anchor_run)

\* RedlineEngine.track_delete_run: [E, el] (el 0 is None); the tag is
\* created, and its id consumed, before the parent is looked at
swap_run(t, run, h) ==
    IF getparent(h, run) = 0 THEN [E |-> [t.E EXCEPT !.heap = h], el |-> 0]
    ELSE [E |-> [t.E EXCEPT !.heap = replace(h, getparent(h, run), run, t.el)], el |-> t.el]

move_into_del(t, run) ==
    swap_run(t, run,
             append(NewNode(t.E.heap, DelRunN(0, run_text(t.E.heap, run),
                                              t.E.heap[run].b, t.E.heap[run].i)),
                    t.el, Len(t.E.heap) + 1))

track_delete_run(E, run) == move_into_del(create_track_change_tag(E, "del"), run)

-----------------------------------------------------------------------------
(* RedlineEngine: review actions and single edits.  An edit is the record   *)
(* [target_text, new_text, idx, op, ref]: idx is _match_start_index (-1 is  *)
(* None), op is _internal_op ("" is None), ref is _active_mapper_ref ("" is *)
(* None, else "raw" or "clean").                                            *)

Edit(target_text, new_text, idx) ==
    [target_text |-> target_text, new_text |-> new_text, idx |-> idx, op |-> "", ref |-> ""]

RECURSIVE remove_nodes(_, _)
remove_nodes(h, nodes) ==
    IF nodes = <<>> THEN h
    ELSE remove_nodes(remove(h, getparent(h, Head(nodes)), Head(nodes)), Tail(nodes))

\* move the children of el in front of el, at index, index + 1, ...
RECURSIVE unwrap_children(_, _, _, _, _)
unwrap_children(h, parent, idx, children, restore) ==
    IF children = <<>> THEN h
    ELSE unwrap_children(
             insert(IF restore THEN [h EXCEPT ![Head(children)].dt = FALSE] ELSE h,
                    parent, idx, Head(children)),
             parent, idx + 1, Tail(children), restore)

unwrap_node(h, d, restore) ==
    remove(unwrap_children(h, getparent(h, d), index(h, getparent(h, d), d), h[d].kids, restore),
           getparent(h, d), d)

RECURSIVE unwrap_nodes(_, _, _)
unwrap_nodes(h, nodes, restore) ==
    IF nodes = <<>> THEN h
    ELSE unwrap_nodes(unwrap_node(h, Head(nodes), restore), Tail(nodes), restore)

\* the w:del elements of the id, looked up after the w:ins ones are handled
accept_dels(h, del_nodes, found) ==
    [heap |-> remove_nodes(h, del_nodes), ok |-> found \/ del_nodes # <<>>]

accept_ins(h, target_id, ins_nodes) ==
    accept_dels(unwrap_nodes(h, ins_nodes, FALSE),
                xpath_tag_id(unwrap_nodes(h, ins_nodes, FALSE), "del", target_id),
                ins_nodes # <<>>)

\* RedlineEngine._accept_change: [heap, ok]
accept_change(h, target_id) == accept_ins(h, target_id, xpath_tag_id(h, "ins", target_id))

reject_dels(h, del_nodes, found) ==
    [heap |-> unwrap_nodes(h, del_nodes, TRUE), ok |-> found \/ del_nodes # <<>>]

reject_ins(h, target_id, ins_nodes) ==
    reject_dels(remove_nodes(h, ins_nodes),
                xpath_tag_id(remove_nodes(h, ins_nodes), "del", target_id),
                ins_nodes # <<>>)

\* RedlineEngine._reject_change: [heap, ok]
reject_change(h, target_id) == reject_ins(h, target_id, xpath_tag_id(h, "ins", target_id))

\* RedlineEngine._get_next_run: the next sibling that is a run, or 0
get_next_run(h, run) ==
    LET parent == getparent(h, run)
        sibs == IF parent = 0 THEN <<>> ELSE From(h[parent].kids, index(h, parent, run) + 1)
        rs == SelectSeq(sibs, LAMBDA n : h[n].tag = "r")
    IN  IF rs = <<>> THEN 0 ELSE rs[1]

\* RedlineEngine._determine_style_source
determine_style_source(prev_run, next_run, insert_text) ==
    IF next_run = 0 THEN prev_run
    ELSE IF insert_text # <<>> /\ insert_text[Len(insert_text)] = " " THEN next_run
    ELSE prev_run

\* ghost: a mapper is current when it equals a map built from the tree now
Fresh(E, which) == Mp(E, which) = build_map(E.heap, which = "clean")

\* ghost: note that the mapper is consulted
Use(E, which) == [E EXCEPT !.stale = @ \/ ~Fresh(E, which)]

\* ghost: note what a single edit did
Note(E, edit, kind, ret, deleted, anchor) ==
    [E EXCEPT !.log = Append(@, [edit |-> edit, kind |-> kind, ret |-> ret,
                                 deleted |-> deleted, anchor |-> anchor])]

derive_op(edit) ==
    IF edit.op # "" THEN edit.op
    ELSE IF edit.target_text = <<>> /\ edit.new_text # <<>> THEN "INSERTION"
    ELSE IF edit.target_text # <<>> /\ edit.new_text = <<>> THEN "DELETION"
    ELSE "MODIFICATION"

\* track_delete_run over the target runs: [E, last, deleted]
RECURSIVE delete_runs(_, _, _, _)
delete_next(E, runs, deleted, d) ==
    delete_runs(d.E, Tail(runs), d.el,
                IF d.el # 0 THEN deleted \o run_text(E.heap, Head(runs)) ELSE deleted)

delete_runs(E, runs, last, deleted) ==
    IF runs = <<>> THEN [E |-> E, last |-> last, deleted |-> deleted]
    ELSE delete_next(E, runs, deleted, track_delete_run(E, Head(runs)))

\* "parent.insert(index, ins_elem)" and "return True"
inserted(t, edit, parent, idx, kind, deleted, anchor) ==
    [E |-> Note([t.E EXCEPT !.heap = insert(t.E.heap, parent, idx, t.el)],
                edit, kind, "True", deleted, anchor),
     ret |-> "True"]

first_run_of(h, el) ==
    IF SelectSeq(h[el].kids, LAMBDA n : h[n].tag = "r") = <<>> THEN 0
    ELSE SelectSeq(h[el].kids, LAMBDA n : h[n].tag = "r")[1]

\* the insertion is rejected and, if there is new text, replaced in place
nested_replace(E, E1, edit, first_node) ==
    IF edit.new_text # <<>>
    THEN inserted(track_insert(E1, edit.new_text, first_run_of(E.heap, first_node)), edit,
                  getparent(E.heap, first_node),
                  index(E.heap, getparent(E.heap, first_node), first_node),
                  "nested", <<>>, <<>>)
    ELSE [E |-> Note(E1, edit, "nested", "True", <<>>, <<>>), ret |-> "True"]

nested_at(E, edit, ins_id, ins_nodes) ==
    IF ins_nodes = <<>>
    THEN [E |-> Note(E, edit, "nested", "False", <<>>, <<>>), ret |-> "False"]
    ELSE nested_replace(E, [E EXCEPT !.heap = reject_change(E.heap, ins_id).heap],
                        edit, ins_nodes[1])

\* _apply_single_edit_indexed, the branch for a range inside an insertion
apply_nested(E, edit, ins_id) ==
    nested_at(E, edit, ins_id, xpath_tag_id(E.heap, "ins", ins_id))

insert_at_anchor(a, edit, start_idx) ==
    IF a.run = 0
    THEN [E |-> Note(a.E, edit, "insert", "False", <<>>, <<>>), ret |-> "False"]
    ELSE IF getparent(a.E.heap, a.run) = 0
    THEN [E |-> Note(a.E, edit, "insert", "Raise", <<>>, <<>>), ret |-> "Raise"]
    ELSE inserted(track_insert(a.E, edit.new_text,
                      IF start_idx = 0 THEN a.run
                      ELSE determine_style_source(a.run, get_next_run(a.E.heap, a.run),
                                                  edit.new_text)),
                  edit,
                  getparent(a.E.heap, a.run),
                  index(a.E.heap, getparent(a.E.heap, a.run), a.run)
                      + (IF start_idx = 0 THEN 0 ELSE 1),
                  "insert", <<>>,
                  IF start_idx = 0 THEN <<>> ELSE run_text(a.E.heap, a.run))

\* _apply_single_edit_indexed, the INSERTION branch
apply_insertion(E, edit, start_idx) ==
    insert_at_anchor(get_insertion_anchor(Use(E, "raw"), "raw", start_idx), edit, start_idx)

\* "if op == MODIFICATION and last_del_element is not None and new_text"
after_delete(d, edit, op, last_run) ==
    IF op = "MODIFICATION" /\ d.last # 0 /\ edit.new_text # <<>>
    THEN inserted(track_insert(d.E, edit.new_text, last_run), edit,
                  getparent(d.E.heap, d.last),
                  index(d.E.heap, getparent(d.E.heap, d.last), d.last) + 1,
                  "modify", d.deleted, <<>>)
    ELSE [E |-> Note(d.E, edit, IF op = "DELETION" THEN "delete" ELSE "modify",
                     "True", d.deleted, <<>>),
          ret |-> "True"]

delete_target(r, edit, op) ==
    IF r.runs = <<>>
    THEN [E |-> Note(r.E, edit, "delete", "False", <<>>, <<>>), ret |-> "False"]
    ELSE after_delete(delete_runs(r.E, r.runs, 0, <<>>), edit, op, r.runs[Len(r.runs)])

\* "active_mapper = getattr(edit, '_active_mapper_ref', self.mapper)"
active_mapper(edit) == IF edit.ref = "" THEN "raw" ELSE edit.ref

\* _apply_single_edit_indexed, the Deletion / Modification branch
apply_delete_modify(E, edit, op, start_idx, length) ==
    delete_target(find_target_runs_by_index(Use(E, active_mapper(edit)), active_mapper(edit),
                                            start_idx, length),
                  edit, op)

indexed_branch(E, edit, start_idx, length, context_span) ==
    IF length > 0 /\ context_span.run # 0 /\ context_span.ins_id # 0
    THEN apply_nested(E, edit, context_span.ins_id)
    ELSE IF derive_op(edit) = "INSERTION" THEN apply_insertion(E, edit, start_idx)
    ELSE apply_delete_modify(E, edit, derive_op(edit), start_idx, length)

\* RedlineEngine._apply_single_edit_indexed: [E, ret], ret is "True",
\* "False" or "Raise" (an exception leaves the method); the raw mapper is
\* consulted for the context when the target is not empty
apply_single_edit_indexed(E, edit) ==
    indexed_branch(IF Len(edit.target_text) > 0 THEN Use(E, "raw") ELSE E,
                   edit,
                   IF edit.idx = -1 THEN 0 ELSE edit.idx,
                   Len(edit.target_text),
                   get_context_at_range(E.m, IF edit.idx = -1 THEN 0 ELSE edit.idx,
                       (IF edit.idx = -1 THEN 0 ELSE edit.idx) + Len(edit.target_text)))

\* the edit _apply_single_edit_heuristic hands to _apply_single_edit_indexed
ProxyEdit(target_text, new_text, idx, op, ref) ==
    [target_text |-> target_text, new_text |-> new_text, idx |-> idx, op |-> op, ref |-> ref]

\* nothing is left to apply: "return True"
NoEdit == ProxyEdit(<<>>, <<>>, -1, "", "")

\* the match lies in an insertion: the whole insertion is the target
nested_proxy(edit, start_idx, match_len, ins_spans) ==
    Edit(Concat([k \in 1..Len(ins_spans) |-> ins_spans[k].text]),
         Slice(Concat([k \in 1..Len(ins_spans) |-> ins_spans[k].text]),
               0, start_idx - ins_spans[1].start)
            \o edit.new_text
            \o From(Concat([k \in 1..Len(ins_spans) |-> ins_spans[k].text]),
                    start_idx - ins_spans[1].start + match_len),
         ins_spans[1].start)

\* the edit after _trim_common_context
trimmed_proxy(edit, which, start_idx, actual_doc_text, tr) ==
    LET final_target == Slice(actual_doc_text, tr[1], Len(actual_doc_text) - tr[2])
        final_new == Slice(edit.new_text, tr[1], Len(edit.new_text) - tr[2])
    IN  IF final_target = <<>> /\ final_new = <<>> THEN NoEdit
        ELSE ProxyEdit(final_target, final_new, start_idx + tr[1],
                       IF final_target = <<>> THEN "INSERTION"
                       ELSE IF final_new = <<>> THEN "DELETION" ELSE "MODIFICATION",
                       which)

plain_proxy(edit, which, start_idx, match_len, actual_doc_text) ==
    IF actual_doc_text = edit.new_text THEN NoEdit
    ELSE IF Slice(edit.new_text, 0, Len(actual_doc_text)) = actual_doc_text
    THEN ProxyEdit(<<>>, From(edit.new_text, Len(actual_doc_text)),
                   start_idx + match_len, "INSERTION", which)
    ELSE trimmed_proxy(edit, which, start_idx, actual_doc_text,
                       trim_common_context(actual_doc_text, edit.new_text))

proxy_edit(E, edit, which, start_idx, match_len, context_span) ==
    IF context_span.run # 0 /\ context_span.ins_id # 0
    THEN nested_proxy(edit, start_idx, match_len,
             SelectSeq(Mp(E, which).spans, LAMBDA sp : sp.ins_id = context_span.ins_id))
    ELSE plain_proxy(edit, which, start_idx, match_len,
                     Slice(E.m.full_text, start_idx, start_idx + match_len))

apply_proxy(E, proxy) ==
    IF proxy = NoEdit THEN [E |-> E, ret |-> "True"]
    ELSE apply_single_edit_indexed(E, proxy)

\* _apply_single_edit_heuristic once the match is known: the edit is
\* narrowed and handed to _apply_single_edit_indexed
apply_matched(E, edit, which, start_idx, match_len) ==
    apply_proxy(E, proxy_edit(E, edit, which, start_idx, match_len,
                    get_context_at_range(Mp(E, which), start_idx, start_idx + match_len)))

\* "if not self.clean_mapper: self.clean_mapper = DocumentMapper(..., clean_view=True)"
ensure_clean(E) == IF E.cm = NoMapper THEN Rebuild(E, "clean") ELSE E

clean_match(E, target_text) ==
    [E |-> E, which |-> "clean", at |-> find_match_index(E.cm, target_text)]

\* the raw mapper first, the clean mapper when the raw one has no match
raw_or_clean(E, target_text, raw) ==
    IF raw[1] # -1 THEN [E |-> E, which |-> "raw", at |-> raw]
    ELSE clean_match(Use(ensure_clean(E), "clean"), target_text)

apply_found(edit, f) ==
    IF f.at[1] = -1 THEN [E |-> f.E, ret |-> "False"]
    ELSE apply_matched(f.E, edit, f.which, f.at[1], f.at[2])

\* RedlineEngine._apply_single_edit_heuristic: [E, ret]
apply_single_edit_heuristic(E, edit) ==
    IF edit.target_text = <<>> THEN [E |-> E, ret |-> "False"]
    ELSE apply_found(edit, raw_or_clean(Use(E, "raw"), edit.target_text,
                                        find_match_index(E.m, edit.target_text)))

\* the sort keys of apply_edits
sort_key(e, by) == IF by = "index" THEN (IF e.idx = -1 THEN 0 ELSE e.idx) ELSE Len(e.target_text)

\* list.sort(key=..., reverse=True): stable, equal keys keep their order
RECURSIVE sort_desc(_, _)
sort_desc(seq, by) ==
    IF seq = <<>> THEN <<>>
    ELSE LET rest == sort_desc(Tail(seq), by)
             x == Head(seq)
             before == SelectSeq(rest, LAMBDA y : sort_key(y, by) > sort_key(x, by))
             after == SelectSeq(rest, LAMBDA y : sort_key(y, by) <= sort_key(x, by))
         IN  before \o <<x>> \o after

\* apply_edits: indexed_edits, sorted
sort_indexed(edits) == sort_desc(SelectSeq(edits, LAMBDA e : e.idx # -1), "index")

\* a variant of the second phase that keeps the edits in the order of the
\* batch; a shorter target can then be matched before a longer one
sort_unindexed_as_listed(edits) == SelectSeq(edits, LAMBDA e : e.idx = -1)

\* apply_edits: unindexed_edits, sorted
sort_unindexed(edits) == sort_desc(SelectSeq(edits, LAMBDA e : e.idx = -1), "length")

-----------------------------------------------------------------------------
(* Documents the engine is constructed on.  Each is the tree as              *)
(* normalize_docx leaves it: no two neighbouring runs of a paragraph have    *)
(* the same run properties.                                                  *)

AuthorA == <<"A">>      \* author of the tracked changes already in a document

\* one paragraph, one plain run: "AB cd ef"
DocPlain ==
    << Elem("doc", 0, <<2>>), Elem("body", 1, <<3>>), ParaN(2, <<4>>, "Normal"),
       RunN(3, <<"A", "B", " ", "c", "d", " ", "e", "f">>, FALSE, FALSE) >>

\* one paragraph, one bold run: "ab cd ef"
DocBold ==
    << Elem("doc", 0, <<2>>), Elem("body", 1, <<3>>), ParaN(2, <<4>>, "Normal"),
       RunN(3, <<"a", "b", " ", "c", "d", " ", "e", "f">>, TRUE, FALSE) >>

\* plain "AB ", an insertion (id 1) holding "cd", bold " ef"
DocIns ==
    << Elem("doc", 0, <<2>>), Elem("body", 1, <<3>>), ParaN(2, <<4, 5, 7>>, "Normal"),
       RunN(3, <<"A", "B", " ">>, FALSE, FALSE),
       ChgN("ins", 3, <<6>>, 1, AuthorA),
       RunN(5, <<"c", "d">>, FALSE, FALSE),
       RunN(3, <<" ", "e", "f">>, TRUE, FALSE) >>

\* plain "AB ", a deletion (id 1) holding "cd", italic " ef gh"
DocDel ==
    << Elem("doc", 0, <<2>>), Elem("body", 1, <<3>>), ParaN(2, <<4, 5, 7>>, "Normal"),
       RunN(3, <<"A", "B", " ">>, FALSE, FALSE),
       ChgN("del", 3, <<6>>, 1, AuthorA),
       DelRunN(5, <<"c", "d">>, FALSE, FALSE),
       RunN(3, <<" ", "e", "f", " ", "g", "h">>, FALSE, TRUE) >>

\* a header part whose paragraph holds an insertion (id 2), a body with a
\* heading, a paragraph and a one-row two-cell table
DocParts ==
    << Elem("doc", 0, <<2, 6>>),
       Elem("hdr", 1, <<3>>), ParaN(2, <<4>>, "Normal"),
       ChgN("ins", 3, <<5>>, 2, AuthorA), RunN(4, <<"g", "h">>, FALSE, FALSE),
       Elem("body", 1, <<7, 9, 11>>),
       ParaN(6, <<8>>, "Heading 1"), RunN(7, <<"X", "Y">>, FALSE, FALSE),
       ParaN(6, <<10>>, "Normal"), RunN(9, <<"A", "B", " ", "c", "d">>, FALSE, FALSE),
       Elem("tbl", 6, <<12>>), Elem("tr", 11, <<13, 16>>),
       Elem("tc", 12, <<14>>), ParaN(13, <<15>>, "Normal"), RunN(14, <<"e", "f">>, FALSE, FALSE),
       Elem("tc", 12, <<17>>), ParaN(16, <<18>>, "Normal"), RunN(17, <<"C", "D">>, TRUE, FALSE) >>

Docs == {DocPlain, DocBold, DocIns, DocDel, DocParts}

-----------------------------------------------------------------------------
(* Inputs.  Edits are drawn from a pool that depends on the document; the   *)
(* new texts are single lines without a heading marker, so track_insert     *)
(* takes its inline branch.  Edits carry no comment.                        *)

MaxOps == 2     \* edits and review actions submitted to one engine

H(target_text, new_text) == Edit(target_text, new_text, -1)

PoolPlain ==
    { H(<<"A", "B", " ", "c", "d">>, <<>>), H(<<"c", "d">>, <<>>), H(<<"c", "d">>, <<"X", "Y">>), H(<<"z", "z">>, <<>>),
      Edit(<<"A", "B">>, <<>>, 0), Edit(<<>>, <<"x", "y">>, 0),
      Edit(<<>>, <<"x", "y">>, 3), Edit(<<"c", "d">>, <<>>, 3),
      H(<<>>, <<"x", "y">>), Edit(<<>>, <<>>, 3) }

PoolBold ==
    { H(<<"c", "d">>, <<>>), H(<<"c", "d">>, <<"X", "Y">>), H(<<"a", "b", " ", "c", "d", " ", "e", "f">>, <<"a", "b", " ", "X", "Y", " ", "e", "f">>),
      H(<<"a", "b", " ", " ", "c", "d">>, <<>>), Edit(<<"c", "d">>, <<>>, 5) }

PoolIns ==
    { H(<<"A", "B", " ", "c", "d">>, <<"X", "Y">>), H(<<"c", "d">>, <<"X", "Y">>), H(<<"z", "z">>, <<>>),
      H(<<"e", "f">>, <<"e", "f", " ", "g", "h">>), Edit(<<"c", "d">>, <<>>, 6),
      H(<<"d">>, <<"X">>), Edit(<<"c">>, <<"X">>, 6) }

PoolDel ==
    { H(<<"g", "h">>, <<>>), H(<<"c", "d">>, <<"X", "Y">>), H(<<"e", "f", " ", "g", "h">>, <<"e", "f", " ", "X", "Y">>),
      H(<<"A", "B", " ", "e", "f">>, <<>>), Edit(<<>>, <<"x", "y">>, 3) }

PoolParts ==
    { H(<<"c", "d">>, <<"X", "Y">>), H(<<"g", "h">>, <<>>), H(<<"e", "f">>, <<>>), H(<<"X", "Y">>, <<"Y", "Z">>),
      Edit(<<>>, <<"x", "y">>, 3) }

Pool(d) ==
    IF d = DocPlain THEN PoolPlain
    ELSE IF d = DocBold THEN PoolBold
    ELSE IF d = DocIns THEN PoolIns
    ELSE IF d = DocDel THEN PoolDel
    ELSE PoolParts

\* the lists of 1..n elements of a set
Lists(S, n) == UNION {[1..k -> S] : k \in 1..n}

ReviewActions == {"ACCEPT", "REJECT"}

-----------------------------------------------------------------------------
(* CommentsManager.  A package's comment parts are the lists of their       *)
(* child elements: w:comment (id, author, date, initials, the legacy parent *)
(* attribute w15:p, the w14:paraId of its paragraph), w15:commentEx         *)
(* (paraId, paraIdParent, done), w16cid:commentId (paraId, durableId) and   *)
(* w16cex:commentExtensible (durableId, dateUtc).  An absent attribute is   *)
(* 0 (ids) or <<>> (text); ids are numbers.                                 *)

Comment(id, author, date, initials, p, para_id, text) ==
    [id |-> id, author |-> author, date |-> date, initials |-> initials, p |-> p,
     para_id |-> para_id, text |-> text]

CommentEx(para_id, parent_para_id, done) ==
    [paraId |-> para_id, paraIdParent |-> parent_para_id, done |-> done]

CommentId(para_id, durable_id) == [paraId |-> para_id, durableId |-> durable_id]

CommentExtensible(durable_id, date_utc) == [durableId |-> durable_id, dateUtc |-> date_utc]

\* the comment parts of a package: the parts that are missing are created
\* empty by CommentsManager.__init__
Parts(comments, extended, ids, extensible) ==
    [comments_part |-> comments, extended_part |-> extended, ids_part |-> ids,
     extensible_part |-> extensible]

NoComments == Parts(<<>>, <<>>, <<>>, <<>>)

\* CommentsManager._get_next_comment_id
get_next_comment_id(comments) ==
    max_id({comments[k].id : k \in 1..Len(comments)} \cup {0}) + 1

\* CommentsManager.__init__
CommentsManager(parts) ==
    [comments_part |-> parts.comments_part, extended_part |-> parts.extended_part,
     ids_part |-> parts.ids_part, extensible_part |-> parts.extensible_part,
     next_id |-> get_next_comment_id(parts.comments_part)]

\* "".join(part[0] for part in author.split() if part).upper(), the author
\* given as its words
to_upper(c) ==
    CASE c = "a" -> "A" [] c = "b" -> "B" [] c = "e" -> "E" [] OTHER -> c

get_initials(author) == [k \in 1..Len(author) |-> to_upper(author[k][1])]

\* CommentsManager._find_para_id_for_comment: 0 when there is none
find_para_id_for_comment(cm, comment_id) ==
    IF SelectSeq(cm.comments_part, LAMBDA c : c.id = comment_id /\ c.para_id # 0) = <<>>
    THEN 0
    ELSE SelectSeq(cm.comments_part, LAMBDA c : c.id = comment_id /\ c.para_id # 0)[1].para_id

\* the first entry of the extended part for the paragraph that has a parent
parent_of(extended, direct_para_id) ==
    IF SelectSeq(extended, LAMBDA x : x.paraId = direct_para_id /\ x.paraIdParent # 0) = <<>>
    THEN direct_para_id
    ELSE SelectSeq(extended,
                   LAMBDA x : x.paraId = direct_para_id /\ x.paraIdParent # 0)[1].paraIdParent

\* CommentsManager._find_thread_root_para_id
find_thread_root_para_id(cm, comment_id) ==
    IF find_para_id_for_comment(cm, comment_id) = 0 THEN 0
    ELSE parent_of(cm.extended_part, find_para_id_for_comment(cm, comment_id))

\* CommentsManager._add_to_extended_part
add_to_extended_part(cm, para_id, parent_para_id) ==
    [cm EXCEPT !.extended_part = Append(@, CommentEx(para_id, parent_para_id, "0"))]

\* CommentsManager._add_to_ids_part
add_to_ids_part(cm, para_id, durable_id) ==
    [cm EXCEPT !.ids_part = Append(@, CommentId(para_id, durable_id))]

\* CommentsManager._add_to_extensible_part: the durable id is looked up by
\* the paragraph id
add_to_extensible_part(cm, para_id, date_utc) ==
    IF SelectSeq(cm.ids_part, LAMBDA x : x.paraId = para_id) = <<>> THEN cm
    ELSE IF SelectSeq(cm.ids_part, LAMBDA x : x.paraId = para_id)[1].durableId = 0 THEN cm
    ELSE [cm EXCEPT !.extensible_part =
             Append(@, CommentExtensible(
                           SelectSeq(cm.ids_part, LAMBDA x : x.paraId = para_id)[1].durableId,
                           date_utc))]

\* "self.comments_part.element.append(comment)" with "self.next_id += 1":
\* the legacy parent attribute is set only when there is no extended part,
\* and __init__ always gets or creates one
append_comment(cm, author, text, parent_id, now, para_id) ==
    [cm EXCEPT !.next_id = @ + 1,
               !.comments_part =
                   Append(@, Comment(cm.next_id, author, now, get_initials(author),
                                     0, para_id, text))]

\* CommentsManager.add_comment: the manager afterwards; now is the clock,
\* para_id and durable_id are the random ids drawn
add_comment(cm, author, text, parent_id, now, para_id, durable_id) ==
    add_to_extensible_part(
        add_to_ids_part(
            add_to_extended_part(
                append_comment(cm, author, text, parent_id, now, para_id),
                para_id,
                IF parent_id # 0
                THEN find_thread_root_para_id(
                         append_comment(cm, author, text, parent_id, now, para_id), parent_id)
                ELSE 0),
            para_id, durable_id),
        para_id, now)

-----------------------------------------------------------------------------
(* The engine as a state machine                                            *)

EngineState ==
    [heap |-> heap, cid |-> current_id, m |-> mapper, cm |-> clean_mapper,
     issued |-> issued, stale |-> stale, log |-> log]

SetEngineState(E) ==
    /\ heap' = E.heap
    /\ current_id' = E.cid
    /\ mapper' = E.m
    /\ clean_mapper' = E.cm
    /\ issued' = E.issued
    /\ stale' = E.stale
    /\ log' = E.log

\* Python's None
None == "None"

\* "_engine = None"
NoEngine == [bytes |-> None, text |-> <<>>]

\* the pipeline module is loaded: "_engine = None", "_original_bytes = None"
PipelineInit ==
    /\ stored_engine = NoEngine
    /\ original_bytes = None
    /\ returned = [fn |-> ""]

\* no module-level function has been called
NoCall == [fn |-> "", args |-> <<>>, ret |-> <<>>]

\* RedlineEngine.__init__ on a normalised document: the tree, the ids and
\* the raw mapper
EngineStart ==
    /\ heap = doc
    /\ current_id = scan_existing_ids(doc)
    /\ mapper = build_map(doc, FALSE)
    /\ clean_mapper = NoMapper
    /\ pc = "idle"
    /\ indexed_edits = <<>>
    /\ unindexed_edits = <<>>
    /\ applied = 0
    /\ skipped = 0
    /\ result = <<>>
    /\ batch = <<>>
    /\ text0 = <<>>
    /\ trace = <<>>
    /\ log = <<>>
    /\ issued = <<>>
    /\ stale = FALSE
    /\ ops = 0

EngineInit == doc \in Docs /\ EngineStart

\* RedlineEngine.__init__ on a document that has no comment parts
Init ==
    /\ EngineInit
    /\ call = NoCall
    /\ comments_manager = CommentsManager(NoComments)
    /\ added = <<>>
    /\ PipelineInit

\* apply_edits is entered: the edits are partitioned and sorted
ApplyEdits(edits) ==
    /\ pc = "idle"
    /\ ops + Len(edits) <= MaxOps
    /\ pc' = "indexed"
    /\ indexed_edits' = sort_indexed(edits)
    /\ unindexed_edits' = sort_unindexed(edits)
    /\ applied' = 0
    /\ skipped' = 0
    /\ batch' = edits
    /\ text0' = build_map(heap, FALSE).full_text
    /\ trace' = <<>>
    /\ ops' = ops + Len(edits)
    /\ UNCHANGED <<heap, current_id, mapper, clean_mapper, result, doc, log, issued, stale>>
    /\ UNCHANGED <<fn_vars, comment_vars, pipeline_vars>>

\* one pass of the loop over indexed_edits
ApplyIndexed ==
    /\ pc = "indexed"
    /\ indexed_edits # <<>>
    /\ \E r \in {apply_single_edit_indexed(EngineState, Head(indexed_edits))} :
           /\ SetEngineState(r.E)
           /\ trace' = Append(trace, [phase |-> "indexed", edit |-> Head(indexed_edits),
                                      ret |-> r.ret, fresh |-> Fresh(EngineState, "raw")])
           /\ applied' = IF r.ret = "True" THEN applied + 1 ELSE applied
           /\ skipped' = IF r.ret = "False" THEN skipped + 1 ELSE skipped
           /\ pc' = IF r.ret = "Raise" THEN "raised" ELSE pc
    /\ indexed_edits' = Tail(indexed_edits)
    /\ UNCHANGED <<unindexed_edits, result, doc, batch, text0, ops>>
    /\ UNCHANGED <<fn_vars, comment_vars, pipeline_vars>>

\* the indexed loop is over and there are unindexed edits: the raw
\* mapper is rebuilt
BeginHeuristic ==
    /\ pc = "indexed"
    /\ indexed_edits = <<>>
    /\ unindexed_edits # <<>>
    /\ mapper' = rebuild_map(mapper, heap, FALSE)
    /\ pc' = "heuristic"
    /\ UNCHANGED <<heap, current_id, clean_mapper, indexed_edits, unindexed_edits, applied,
                   skipped, result, doc, batch, text0, trace, log, issued, stale, ops>>
    /\ UNCHANGED <<fn_vars, comment_vars, pipeline_vars>>

\* one pass of the loop over unindexed_edits, with the rebuild that
\* follows an applied edit
ApplyHeuristic ==
    /\ pc = "heuristic"
    /\ unindexed_edits # <<>>
    /\ \E r \in {apply_single_edit_heuristic(EngineState, Head(unindexed_edits))} :
           /\ SetEngineState(IF r.ret = "True" THEN Rebuild(r.E, "raw") ELSE r.E)
           /\ trace' = Append(trace, [phase |-> "heuristic", edit |-> Head(unindexed_edits),
                                      ret |-> r.ret, fresh |-> Fresh(EngineState, "raw")])
           /\ applied' = IF r.ret = "True" THEN applied + 1 ELSE applied
           /\ skipped' = IF r.ret = "False" THEN skipped + 1 ELSE skipped
           /\ pc' = IF r.ret = "Raise" THEN "raised" ELSE pc
    /\ unindexed_edits' = Tail(unindexed_edits)
    /\ UNCHANGED <<indexed_edits, result, doc, batch, text0, ops>>
    /\ UNCHANGED <<fn_vars, comment_vars, pipeline_vars>>

\* apply_edits returns (applied, skipped)
Return ==
    /\ pc \in {"indexed", "heuristic"}
    /\ indexed_edits = <<>>
    /\ unindexed_edits = <<>>
    /\ result' = <<applied, skipped>>
    /\ pc' = "idle"
    /\ UNCHANGED <<heap, current_id, mapper, clean_mapper, indexed_edits, unindexed_edits,
                   applied, skipped, doc, batch, text0, trace, log, issued, stale, ops>>
    /\ UNCHANGED <<fn_vars, comment_vars, pipeline_vars>>

\* the loop of apply_review_actions over actions on changes:
\* [heap, applied, skipped]
RECURSIVE review_loop(_, _, _, _)
review_next(r, actions, n_applied, n_skipped) ==
    IF r.ok THEN review_loop(r.heap, Tail(actions), n_applied + 1, n_skipped)
    ELSE review_loop(r.heap, Tail(actions), n_applied, n_skipped + 1)

review_loop(h, actions, n_applied, n_skipped) ==
    IF actions = <<>> THEN [heap |-> h, applied |-> n_applied, skipped |-> n_skipped]
    ELSE review_next(IF Head(actions).action = "ACCEPT"
                     THEN accept_change(h, Head(actions).target_id)
                     ELSE reject_change(h, Head(actions).target_id),
                     actions, n_applied, n_skipped)

\* RedlineEngine.apply_review_actions with ACCEPT / REJECT actions on
\* "Chg:<id>" targets; no mapper is rebuilt
ApplyReviewActions(actions) ==
    /\ pc = "idle"
    /\ ops + Len(actions) <= MaxOps
    /\ \E r \in {review_loop(heap, actions, 0, 0)} :
           /\ heap' = r.heap
           /\ result' = <<r.applied, r.skipped>>
    /\ ops' = ops + Len(actions)
    /\ UNCHANGED <<current_id, mapper, clean_mapper, pc, indexed_edits, unindexed_edits,
                   applied, skipped, doc, batch, text0, trace, log, issued, stale>>
    /\ UNCHANGED <<fn_vars, comment_vars, pipeline_vars>>

Next ==
    \/ \E edits \in Lists(Pool(doc), MaxOps) : ApplyEdits(edits)
    \/ ApplyIndexed
    \/ BeginHeuristic
    \/ ApplyHeuristic
    \/ Return
    \/ \E a \in ReviewActions, id \in 1..(current_id + 1) :
           ApplyReviewActions(<<[action |-> a, target_id |-> id]>>)

Spec == Init /\ [][Next]_vars

-----------------------------------------------------------------------------
(* The module-level functions, called on their own.  A call is made from   *)
(* the idle state and its record is dropped when it returns.               *)

MaxLen == 4     \* length of the old text of a trimmed pair

\* the texts of at most n characters of S
Texts(S, n) == UNION {[1..k -> S] : k \in 0..n}

\* a letter, white space and the inline delimiters
TrimChars == {"a", " ", "*", "_"}

Replacements == {<<>>, <<"b">>, <<" ">>, <<"b", " ", "b">>, <<"a", "b">>}

\* the new texts of an old text: one stretch of it replaced
Rewrites(old) ==
    {Slice(old, 0, ij[1]) \o r \o From(old, ij[2]) :
        ij \in {q \in (0..Len(old)) \X (0..Len(old)) : q[1] <= q[2]}, r \in Replacements}

FnInit == doc = DocPlain /\ Init

CallTrim(old, new) ==
    /\ call' = [fn |-> "_trim_common_context", args |-> <<old, new>>,
                ret |-> trim_common_context(old, new)]
    /\ UNCHANGED <<engine_vars, comment_vars, pipeline_vars>>

\* the narrowing of a matched edit in _apply_single_edit_heuristic: the
\* matched text is old, the edit's new text is new
CallNarrow(old, new) ==
    /\ old # <<>>
    /\ call' = [fn |-> "narrow", args |-> <<old, new>>,
                ret |-> plain_proxy(H(old, new), "raw", 0, Len(old), old)]
    /\ UNCHANGED <<engine_vars, comment_vars, pipeline_vars>>

MaxNeedle == 3  \* length of the target text handed to find_match_index

NeedleChars == {"a", "b", " ", "_", "\"", "LDQ"}

\* logical texts: straight and curly quotes, runs of underscores and of
\* white space, a repeated word
LogicalTexts ==
    { <<"a", " ", "\"", "b", "\"">>,
      <<"a", " ", "LDQ", "b", "RDQ", " ", "a">>,
      <<"LDQ", "a", " ", "\"", "a">>,
      <<"a", "_", "_", "b", " ", " ", "a", "b">>,
      <<"b", "a", "b", "a">>,
      <<>> }

\* DocumentMapper.find_match_index on a mapper whose full_text is text
CallFind(text, target_text) ==
    /\ call' = [fn |-> "find_match_index", args |-> <<text, target_text>>,
                ret |-> [at |-> find_match_index([full_text |-> text], target_text),
                         by |-> match_strategy([full_text |-> text], target_text)]]
    /\ UNCHANGED <<engine_vars, comment_vars, pipeline_vars>>

FnReturn ==
    /\ call # NoCall
    /\ call' = NoCall
    /\ UNCHANGED <<engine_vars, comment_vars, pipeline_vars>>

FnNext ==
    \/ /\ call = NoCall
       /\ \E old \in Texts(TrimChars, MaxLen) : \E new \in Rewrites(old) : CallTrim(old, new)
    \/ /\ call = NoCall
       /\ \E old \in Texts(TrimChars, MaxLen) : \E new \in Rewrites(old) : CallNarrow(old, new)
    \/ /\ call = NoCall
       /\ \E text \in LogicalTexts, target_text \in Texts(NeedleChars, MaxNeedle) :
              CallFind(text, target_text)
    \/ FnReturn

FnSpec == FnInit /\ [][FnNext]_vars

-----------------------------------------------------------------------------
(* apply_review_actions with REPLY, on a document that has a comment.  A    *)
(* target id is its prefix ("Chg:", "Com:" or none) and its number.         *)

\* a paragraph: the range of comment 1 around "AB", its reference run,
\* " cd", and an insertion (id 2) holding "ef"
DocComment ==
    << Elem("doc", 0, <<2>>), Elem("body", 1, <<3>>),
       ParaN(2, <<4, 5, 6, 7, 9, 10>>, "Normal"),
       ChgN("commentRangeStart", 3, <<>>, 1, NoText),
       RunN(3, <<"A", "B">>, FALSE, FALSE),
       ChgN("commentRangeEnd", 3, <<>>, 1, NoText),
       Node("r", 3, <<8>>, 0, NoText, NoText, FALSE, FALSE, FALSE, "CommentReference"),
       ChgN("commentReference", 7, <<>>, 1, NoText),
       RunN(3, <<" ", "c", "d">>, FALSE, FALSE),
       ChgN("ins", 3, <<11>>, 2, AuthorA),
       RunN(10, <<"e", "f">>, FALSE, FALSE) >>

\* the comment parts of that document: comment 1
OneComment ==
    Parts(<<Comment(1, <<>>, 0, <<>>, 0, 1, <<"a">>)>>, <<CommentEx(1, 0, "0")>>,
          <<CommentId(1, 1)>>, <<CommentExtensible(1, 0)>>)

ReviewAction(action, prefix, target_id) ==
    [action |-> action, prefix |-> prefix, target_id |-> target_id, text |-> <<"o", "k">>]

ReviewSteps ==
    {ReviewAction(action, prefix, target_id) :
        action \in {"ACCEPT", "REJECT", "REPLY"}, prefix \in {"Chg:", "Com:", ""},
        target_id \in {1, 2}}

\* the reference run of a reply and the w:commentReference in it are the
\* last two elements allocated
reference_run(h, new_id) ==
    NewNode(NewNode(h, Node("r", 0, <<Len(h) + 2>>, 0, NoText, NoText, FALSE, FALSE, FALSE,
                            "CommentReference")),
            ChgN("commentReference", Len(h) + 1, <<>>, new_id, NoText))

\* "insertion_point": the run of the parent's reference, or parent_end
insertion_point(h, parent_id, parent_end) ==
    IF xpath_tag_id(h, "commentReference", parent_id) # <<>>
       /\ h[getparent(h, xpath_tag_id(h, "commentReference", parent_id)[1])].tag = "r"
    THEN getparent(h, xpath_tag_id(h, "commentReference", parent_id)[1])
    ELSE parent_end

\* "2. Find End" and "3. Create Reference Run": new_end is allocated, put
\* after the insertion point, and the reference run is put after it
anchor_end(h, parent_id, new_id) ==
    IF xpath_tag_id(h, "commentRangeEnd", parent_id) = <<>> THEN h
    ELSE addnext(reference_run(
                     addnext(NewNode(h, ChgN("commentRangeEnd", 0, <<>>, new_id, NoText)),
                             insertion_point(h, parent_id,
                                             xpath_tag_id(h, "commentRangeEnd", parent_id)[1]),
                             Len(h) + 1),
                     new_id),
                 Len(h) + 1, Len(h) + 2)

\* RedlineEngine._anchor_reply_comment
anchor_reply_comment(h, parent_id, new_id) ==
    IF xpath_tag_id(h, "commentRangeStart", parent_id) = <<>> THEN h
    ELSE anchor_end(addnext(NewNode(h, ChgN("commentRangeStart", 0, <<>>, new_id, NoText)),
                            xpath_tag_id(h, "commentRangeStart", parent_id)[1], Len(h) + 1),
                    parent_id, new_id)

\* the state of the loop of apply_review_actions after an action: S is
\* [heap, cm, applied, skipped, trace]
after_action(S, act, h, cm, success) ==
    [heap |-> h, cm |-> cm,
     applied |-> IF success THEN S.applied + 1 ELSE S.applied,
     skipped |-> IF success THEN S.skipped ELSE S.skipped + 1,
     trace |-> Append(S.trace, [act |-> act, success |-> success, before |-> S.cm,
                                new_id |-> S.cm.next_id])]

\* RedlineEngine._reply_to_comment: the comments part always exists
reply_to_comment(S, act, para_id, durable_id) ==
    after_action(S, act, anchor_reply_comment(S.heap, act.target_id, S.cm.next_id),
                 add_comment(S.cm, <<EngineAuthor>>, act.text, act.target_id,
                             Len(S.cm.comments_part) + 1, para_id, durable_id),
                 TRUE)

\* one pass of the loop of apply_review_actions
review_action(S, act, para_id, durable_id) ==
    IF act.action = "ACCEPT" /\ act.prefix # "Com:"
    THEN after_action(S, act, accept_change(S.heap, act.target_id).heap, S.cm,
                      accept_change(S.heap, act.target_id).ok)
    ELSE IF act.action = "REJECT" /\ act.prefix # "Com:"
    THEN after_action(S, act, reject_change(S.heap, act.target_id).heap, S.cm,
                      reject_change(S.heap, act.target_id).ok)
    ELSE IF act.action = "REPLY" /\ act.prefix # "Chg:"
    THEN reply_to_comment(S, act, para_id, durable_id)
    ELSE after_action(S, act, S.heap, S.cm, FALSE)

\* RedlineEngine.apply_review_actions; ids[k] is the pair of random ids
\* drawn if the k-th action adds a comment
RECURSIVE review_actions(_, _, _)
review_actions(S, actions, ids) ==
    IF actions = <<>> THEN S
    ELSE review_actions(review_action(S, Head(actions), Head(ids)[1], Head(ids)[2]),
                        Tail(actions), Tail(ids))

ReviewInit ==
    /\ doc = DocComment
    /\ EngineStart
    /\ call = NoCall
    /\ comments_manager = CommentsManager(OneComment)
    /\ added = <<>>
    /\ PipelineInit

ApplyReview(actions, ids) ==
    /\ ops + Len(actions) <= MaxOps
    /\ \E S \in {review_actions([heap |-> heap, cm |-> comments_manager, applied |-> 0,
                                  skipped |-> 0, trace |-> <<>>], actions, ids)} :
           /\ heap' = S.heap
           /\ comments_manager' = S.cm
           /\ result' = <<S.applied, S.skipped>>
           /\ trace' = S.trace
    /\ ops' = ops + Len(actions)
    /\ batch' = actions
    /\ UNCHANGED <<current_id, mapper, clean_mapper, pc, indexed_edits, unindexed_edits,
                   applied, skipped, doc, text0, log, issued, stale>>
    /\ UNCHANGED <<fn_vars, added, pipeline_vars>>

ReviewNext ==
    \E actions \in Lists(ReviewSteps, MaxOps) :
        \E ids \in [1..Len(actions) -> {<<4, 6>>, <<5, 3>>}] : ApplyReview(actions, ids)

ReviewSpec == ReviewInit /\ [][ReviewNext]_vars

-----------------------------------------------------------------------------
(* pipeline.py: prepare and apply_edits around the stored engine.  A .docx  *)
(* is named by its bytes; an engine is the bytes it was made from and the   *)
(* text of its document, which is one plain run.  An edit changes the       *)
(* document by what it does to that text.                                   *)

MaxEdits == 2

\* two documents and bytes that are no .docx
Bytes == {"docA", "docB", "junk"}

text_of(docx_bytes) ==
    IF docx_bytes = "docA" THEN <<"a", "b", " ", "c", "d">> ELSE <<"c", "d", " ", "e", "f">>

\* RedlineEngine(stream, author)
Engine(docx_bytes) == [bytes |-> docx_bytes, text |-> text_of(docx_bytes)]

PipelineEdits ==
    { H(<<"a", "b">>, <<"X">>), H(<<"a", "b", " ", "c", "d">>, <<"Y">>),
      H(<<"e", "f">>, <<"X">>), H(<<"c", "d">>, <<>>) }

\* edits_json: the JSON of a list of edits, or a text that is no JSON
Json(edits) == [valid |-> TRUE, edits |-> edits]

Malformed == [valid |-> FALSE, edits |-> <<>>]

EditsJson == {Json(edits) : edits \in {<<>>} \cup Lists(PipelineEdits, MaxEdits)} \cup {Malformed}

\* "target in prev_target or prev_target in target"
overlapping(target, prev_target) ==
    find(prev_target, target) # -1 \/ find(target, prev_target) # -1

\* the loop of _deduplicate_edits over sorted_edits
RECURSIVE dedup_loop(_, _)
dedup_loop(sorted_edits, kept) ==
    IF sorted_edits = <<>> THEN kept
    ELSE IF \E k \in 1..Len(kept) :
                overlapping(Head(sorted_edits).target_text, kept[k].target_text)
    THEN dedup_loop(Tail(sorted_edits), kept)
    ELSE dedup_loop(Tail(sorted_edits), Append(kept, Head(sorted_edits)))

\* _deduplicate_edits
deduplicate_edits(edits) ==
    IF Len(edits) <= 1 THEN edits ELSE dedup_loop(sort_desc(edits, "length"), <<>>)

\* "sorted(enumerate(edits), key=lambda x: len(x[1].target_text), reverse=True)":
\* the pairs carry the key of the sort
enumerate_sorted(edits) ==
    sort_desc([k \in 1..Len(edits) |->
                  [orig_idx |-> k - 1, edit |-> edits[k], target_text |-> edits[k].target_text]],
              "length")

\* _apply_edit_with_word_diff on a document of one plain run: [text, a].
\* An empty target is handed to the engine, which skips it; a target that
\* is not found is skipped; a replacement equal to the target is skipped
word_diff_on_text(text, edit) ==
    IF edit.target_text = <<>> \/ find(text, edit.target_text) = -1
       \/ edit.target_text = edit.new_text
    THEN [text |-> text, a |-> 0]
    ELSE [text |-> Slice(text, 0, find(text, edit.target_text)) \o edit.new_text
                       \o From(text, find(text, edit.target_text) + Len(edit.target_text)),
          a |-> 1]

set_status(r, orig_idx, a) ==
    [r EXCEPT !.statuses = IF a > 0 THEN [@ EXCEPT ![orig_idx + 1] = TRUE] ELSE @,
              !.applied = IF a > 0 THEN @ + 1 ELSE @,
              !.skipped = IF a > 0 THEN @ ELSE @ + 1]

\* the loop of apply_edits over indexed: r is [text, statuses, applied,
\* skipped, applied_edits]
RECURSIVE edit_loop(_, _)
edit_loop(indexed, r) ==
    IF indexed = <<>> THEN r
    ELSE edit_loop(Tail(indexed),
                   set_status([r EXCEPT
                                  !.text = word_diff_on_text(@, Head(indexed).edit).text,
                                  !.applied_edits =
                                      IF word_diff_on_text(r.text, Head(indexed).edit).a > 0
                                      THEN Append(@, Head(indexed).edit) ELSE @],
                              Head(indexed).orig_idx,
                              word_diff_on_text(r.text, Head(indexed).edit).a))

\* apply_edits from "edits = _deduplicate_edits(edits)" to the summary
apply_to_engine(engine, edits) ==
    edit_loop(enumerate_sorted(deduplicate_edits(edits)),
              [text |-> engine.text,
               statuses |-> [k \in 1..Len(deduplicate_edits(edits)) |-> FALSE],
               applied |-> 0, skipped |-> 0, applied_edits |-> <<>>])

\* "original = _original_bytes or fallback_bytes" when polish_formatting
styling_reference(fallback_bytes, polish_formatting) ==
    IF ~polish_formatting THEN None
    ELSE IF original_bytes # None THEN original_bytes
    ELSE fallback_bytes

\* the state of the module before a call
Before == [engine |-> stored_engine, original_bytes |-> original_bytes]

\* prepare(docx_bytes): the bytes are stored first, then the engine is made
Prepare(docx_bytes) ==
    /\ original_bytes' = docx_bytes
    /\ stored_engine' = IF docx_bytes = "junk" THEN stored_engine ELSE Engine(docx_bytes)
    /\ returned' = [fn |-> "prepare", docx_bytes |-> docx_bytes,
                    raised |-> IF docx_bytes = "junk" THEN "BadZipFile" ELSE "",
                    before |-> Before]
    /\ UNCHANGED <<engine_vars, fn_vars, comment_vars>>

\* apply_edits(edits_json, fallback_bytes, polish_formatting) returns
Applied(engine, edits_json, fallback_bytes, polish_formatting) ==
    /\ stored_engine' = NoEngine
    /\ original_bytes' = None
    /\ returned' = [fn |-> "apply_edits", edits |-> edits_json.edits,
                    fallback_bytes |-> fallback_bytes, raised |-> "",
                    engine |-> engine.bytes,
                    reference |-> styling_reference(fallback_bytes, polish_formatting),
                    out |-> apply_to_engine(engine, edits_json.edits),
                    before |-> Before]

\* apply_edits raises: with no engine to take, before anything is
\* assigned; in json.loads, after the stored engine is cleared
Raised(edits_json, fallback_bytes, error) ==
    /\ stored_engine' = IF error = "JSONDecodeError" THEN NoEngine ELSE stored_engine
    /\ original_bytes' = original_bytes
    /\ returned' = [fn |-> "apply_edits", edits |-> edits_json.edits,
                    fallback_bytes |-> fallback_bytes, raised |-> error, before |-> Before]

\* apply_edits(edits_json, fallback_bytes, polish_formatting)
ApplyEditsJson(edits_json, fallback_bytes, polish_formatting) ==
    /\ IF stored_engine = NoEngine /\ fallback_bytes = None
       THEN Raised(edits_json, fallback_bytes, "RuntimeError")
       ELSE IF stored_engine = NoEngine /\ fallback_bytes = "junk"
       THEN Raised(edits_json, fallback_bytes, "BadZipFile")
       ELSE IF ~edits_json.valid
       THEN Raised(edits_json, fallback_bytes, "JSONDecodeError")
       ELSE Applied(IF stored_engine = NoEngine THEN Engine(fallback_bytes) ELSE stored_engine,
                    edits_json, fallback_bytes, polish_formatting)
    /\ UNCHANGED <<engine_vars, fn_vars, comment_vars>>

PipelineNext ==
    \/ \E docx_bytes \in Bytes : Prepare(docx_bytes)
    \/ \E edits_json \in EditsJson, fallback_bytes \in Bytes \cup {None},
          polish_formatting \in BOOLEAN :
           ApplyEditsJson(edits_json, fallback_bytes, polish_formatting)

PipelineSpec == FnInit /\ [][PipelineNext]_vars

-----------------------------------------------------------------------------
(* diff.py: the edits made from a word-level diff.  The diff library gives  *)
(* a list of (op, text) with op -1 (delete), 0 (equal), 1 (insert); the     *)
(* list is an input here, and the two texts are read off it.                *)

Diff(op, text) == [op |-> op, text |-> text]

AnchorWindow == 50

ChunkLimit == 20

\* "next_text.split(' ')[0] if ' ' in next_text else next_text[:20]"
anchor_target(next_text) ==
    IF find(next_text, <<" ">>) # -1 THEN Slice(next_text, 0, find(next_text, <<" ">>))
    ELSE Slice(next_text, 0, ChunkLimit)

\* "original_text[anchor_start:current_original_index]"
anchor_of(original_text, current_original_index) ==
    Slice(original_text, Max(0, current_original_index - AnchorWindow), current_original_index)

\* the edit made for an insert that follows no delete; i is the 0-based
\* position of the insert in diffs
insertion_edit(original_text, diffs, i, current_original_index, text) ==
    IF /\ anchor_of(original_text, current_original_index) = <<>>
       /\ current_original_index = 0
       /\ i + 1 < Len(diffs)
       /\ diffs[i + 2].op = 0
       /\ anchor_target(diffs[i + 2].text) # <<>>
    THEN Edit(anchor_target(diffs[i + 2].text), text \o anchor_target(diffs[i + 2].text),
              current_original_index)
    ELSE Edit(anchor_of(original_text, current_original_index),
              anchor_of(original_text, current_original_index) \o text,
              current_original_index)

\* "Flush pending delete if any": pending_delete is <<>> (None) or
\* <<index, text>>
flush_delete(edits, pending_delete) ==
    IF pending_delete # <<>>
    THEN Append(edits, Edit(pending_delete[2], <<>>, pending_delete[1]))
    ELSE edits

\* the loop over diffs and the flush that follows it
RECURSIVE diff_loop(_, _, _, _, _, _)
diff_loop(original_text, diffs, i, current_original_index, pending_delete, edits) ==
    IF i >= Len(diffs) THEN flush_delete(edits, pending_delete)
    ELSE IF diffs[i + 1].op = 0
    THEN diff_loop(original_text, diffs, i + 1,
                   current_original_index + Len(diffs[i + 1].text), <<>>,
                   flush_delete(edits, pending_delete))
    ELSE IF diffs[i + 1].op = -1
    THEN diff_loop(original_text, diffs, i + 1,
                   current_original_index + Len(diffs[i + 1].text),
                   <<current_original_index, diffs[i + 1].text>>, edits)
    ELSE IF pending_delete # <<>>
    THEN diff_loop(original_text, diffs, i + 1, current_original_index, <<>>,
                   Append(edits, Edit(pending_delete[2], diffs[i + 1].text, pending_delete[1])))
    ELSE diff_loop(original_text, diffs, i + 1, current_original_index, <<>>,
                   Append(edits, insertion_edit(original_text, diffs, i,
                                                current_original_index, diffs[i + 1].text)))

\* generate_edits_from_text, given the diff of the two texts
generate_edits_from_text(original_text, diffs) ==
    diff_loop(original_text, diffs, 0, 0, <<>>, <<>>)

MaxSegments == 3

\* the texts of the segments of a diff: words, white space, a full stop
SegmentTexts ==
    { <<"a", "b">>, <<" ">>, <<"c", "d">>, <<"a", "b", " ">>, <<" ", "c", "d">>, <<".">> }

\* the text a diff starts from (kinds -1 and 0) or leads to (kinds 0 and 1)
SideOf(diffs, kinds) ==
    Concat([k \in 1..Len(SelectSeq(diffs, LAMBDA d : d.op \in kinds)) |->
               SelectSeq(diffs, LAMBDA d : d.op \in kinds)[k].text])

\* two characters of one token of "(\s+|\w+|[^\w\s])"
SameToken(c1, c2) ==
    \/ c1 = " " /\ c2 = " "
    \/ c1 \notin {" ", "."} /\ c2 \notin {" ", "."}

\* the segments of one side end at token boundaries
TokenAligned(diffs, kinds) ==
    \A k \in 1..(Len(SelectSeq(diffs, LAMBDA d : d.op \in kinds)) - 1) :
        ~SameToken(SelectSeq(diffs, LAMBDA d : d.op \in kinds)[k].text[
                       Len(SelectSeq(diffs, LAMBDA d : d.op \in kinds)[k].text)],
                   SelectSeq(diffs, LAMBDA d : d.op \in kinds)[k + 1].text[1])

\* a diff as the library leaves it: no two neighbours of one kind, a delete
\* before the insert that replaces it, no common start or end left in a
\* replacement, segments made of whole tokens
WellFormedDiff(diffs) ==
    /\ \A k \in 1..(Len(diffs) - 1) :
           /\ diffs[k].op # diffs[k + 1].op
           /\ ~(diffs[k].op = 1 /\ diffs[k + 1].op = -1)
           /\ (diffs[k].op = -1 /\ diffs[k + 1].op = 1) =>
                  /\ diffs[k].text[1] # diffs[k + 1].text[1]
                  /\ diffs[k].text[Len(diffs[k].text)] # diffs[k + 1].text[Len(diffs[k + 1].text)]
    /\ TokenAligned(diffs, {-1, 0})
    /\ TokenAligned(diffs, {0, 1})

DiffLists ==
    {diffs \in UNION {[1..n -> {Diff(op, text) : op \in {-1, 0, 1}, text \in SegmentTexts}] :
                         n \in 0..MaxSegments} : WellFormedDiff(diffs)}

CallGenerateEdits(diffs) ==
    /\ call' = [fn |-> "generate_edits_from_text",
                args |-> <<SideOf(diffs, {-1, 0}), SideOf(diffs, {0, 1}), diffs>>,
                ret |-> generate_edits_from_text(SideOf(diffs, {-1, 0}), diffs)]
    /\ UNCHANGED <<engine_vars, comment_vars, pipeline_vars>>

DiffNext ==
    \/ /\ call = NoCall
       /\ \E diffs \in DiffLists : CallGenerateEdits(diffs)
    \/ FnReturn

DiffSpec == FnInit /\ [][DiffNext]_vars

-----------------------------------------------------------------------------
(* pipeline.py: the word-diff path on the tree.  A diff is a list of        *)
(* [op, text] with op -1 (delete), 0 (equal), 1 (insert).  An rPr is the    *)
(* pair <<b, i>>; <<FALSE, FALSE>> stands for a run without rPr.  The       *)
(* paragraphs of the documents here carry no w:numPr.                       *)

\* _normalize_edit_whitespace
tabs_to_spaces(text) == [k \in 1..Len(text) |-> IF text[k] = "\t" THEN " " ELSE text[k]]

normalize_edit_whitespace(edit) ==
    IF tabs_to_spaces(edit.target_text) = edit.target_text
       /\ tabs_to_spaces(edit.new_text) = edit.new_text
    THEN edit
    ELSE Edit(tabs_to_spaces(edit.target_text), tabs_to_spaces(edit.new_text), -1)

\* "re.sub(r'\*\*(.+?)\*\*', r'\1', text)" then "text.replace('**', '')":
\* every "**" goes, left to right
RECURSIVE strip_bold(_)
strip_bold(text) ==
    IF Len(text) < 2 THEN text
    ELSE IF text[1] = "*" /\ text[2] = "*" THEN strip_bold(From(text, 2))
    ELSE <<text[1]>> \o strip_bold(Tail(text))

isalnum(c) == c \in Lower \cup Upper

\* the end of the shortest "_(.+?)_(?![a-zA-Z0-9])" that opens at i (0-based),
\* -1 when there is none
italic_close(text, i) ==
    LET ends == {j \in (i + 2)..(Len(text) - 1) :
                    /\ text[j + 1] = "_"
                    /\ (j + 1 = Len(text) \/ ~isalnum(text[j + 2]))
                    /\ \A k \in (i + 1)..(j - 1) : text[k + 1] # "\n"}
    IN  IF ends = {} THEN -1 ELSE CHOOSE j \in ends : \A j2 \in ends : j <= j2

\* "re.sub(r'(?<![a-zA-Z0-9])_(.+?)_(?![a-zA-Z0-9])', r'\1', text)" from pos on
RECURSIVE strip_italic(_, _)
strip_italic(text, pos) ==
    IF pos >= Len(text) THEN <<>>
    ELSE IF text[pos + 1] = "_" /\ (pos = 0 \/ ~isalnum(text[pos])) /\ italic_close(text, pos) # -1
    THEN Slice(text, pos + 1, italic_close(text, pos))
             \o strip_italic(text, italic_close(text, pos) + 1)
    ELSE <<text[pos + 1]>> \o strip_italic(text, pos + 1)

\* _strip_formatting_markers
strip_formatting_markers(text) == strip_italic(strip_bold(text), 0)

\* _strip_redundant_clause_number: "numPr is None", "return new_text"
strip_redundant_clause_number(new_text, paragraph_element) == new_text

\* "re.findall(r'\S+|\s+', text)": the maximal runs of blanks and of non-blanks
RECURSIVE findall_tokens(_, _)
findall_tokens(text, found) ==
    IF text = <<>> THEN found
    ELSE IF found # <<>> /\ isspace(found[Len(found)][1]) = isspace(Head(text))
    THEN findall_tokens(Tail(text),
                        [found EXCEPT ![Len(found)] = Append(@, Head(text))])
    ELSE findall_tokens(Tail(text), Append(found, <<Head(text)>>))

\* the number of leading tokens two token lists share
RECURSIVE token_prefix(_, _)
token_prefix(a, b) ==
    IF a # <<>> /\ b # <<>> /\ Head(a) = Head(b) THEN 1 + token_prefix(Tail(a), Tail(b))
    ELSE 0

Reversed(s) == [k \in 1..Len(s) |-> s[Len(s) + 1 - k]]

\* the number of trailing tokens two token lists share
token_suffix(a, b) == token_prefix(Reversed(a), Reversed(b))

\* "if decoded: result.append((op, decoded))"
diff_segments(segs) == SelectSeq(segs, LAMBDA d : d.text # <<>>)

\* diff_main and diff_cleanupSemantic on the token codes, decoded: the
\* common prefix and the common suffix are equalities and what lies between
\* them is a deletion followed by an insertion.  The library gives this
\* when the two middles have no token in common.
diff_tokens(old_tokens, new_tokens, p, s) ==
    diff_segments(<< Diff(0, Concat(SubSeq(old_tokens, 1, p))),
                     Diff(-1, Concat(SubSeq(old_tokens, p + 1, Len(old_tokens) - s))),
                     Diff(1, Concat(SubSeq(new_tokens, p + 1, Len(new_tokens) - s))),
                     Diff(0, Concat(SubSeq(old_tokens, Len(old_tokens) - s + 1,
                                           Len(old_tokens)))) >>)

diff_after_prefix(old_tokens, new_tokens, p) ==
    diff_tokens(old_tokens, new_tokens, p,
                token_suffix(SubSeq(old_tokens, p + 1, Len(old_tokens)),
                             SubSeq(new_tokens, p + 1, Len(new_tokens))))

\* _diff_words
diff_words(old_text, new_text) ==
    diff_after_prefix(findall_tokens(old_text, <<>>), findall_tokens(new_text, <<>>),
                      token_prefix(findall_tokens(old_text, <<>>),
                                   findall_tokens(new_text, <<>>)))

\* _build_char_format_map
build_char_format_map(h, target_runs) ==
    Concat([k \in 1..Len(target_runs) |->
               [c \in 1..Len(run_text(h, target_runs[k])) |->
                   <<h[target_runs[k]].b, h[target_runs[k]].i>>]])

NoRPr == <<FALSE, FALSE>>

\* "char_format_map[clamped] if char_format_map else None", also _get_rpr_at
rpr_at(char_format_map, char_pos) ==
    IF char_format_map = <<>> THEN NoRPr
    ELSE char_format_map[Max(0, Min(char_pos, Len(char_format_map) - 1)) + 1]

\* _split_by_formatting: the loop over the characters of text from the
\* i-th on
RECURSIVE split_by_formatting(_, _, _, _, _)
split_by_formatting(text, char_format_map, start_pos, i, segments) ==
    IF i >= Len(text) THEN segments
    ELSE IF segments # <<>>
            /\ segments[Len(segments)].rPr = rpr_at(char_format_map, start_pos + i)
    THEN split_by_formatting(text, char_format_map, start_pos, i + 1,
             [segments EXCEPT ![Len(segments)].text = Append(@, text[i + 1])])
    ELSE split_by_formatting(text, char_format_map, start_pos, i + 1,
             Append(segments, [text |-> <<text[i + 1]>>,
                               rPr |-> rpr_at(char_format_map, start_pos + i)]))

\* the runs made of segments, appended to parent (0: left without parent,
\* to be listed as elements): [heap, els]
RECURSIVE segment_runs(_, _, _, _, _)
segment_runs(h, segments, parent, deleted, els) ==
    IF segments = <<>> THEN [heap |-> h, els |-> els]
    ELSE segment_runs(
             IF parent = 0
             THEN NewNode(h, RunN(0, Head(segments).text, Head(segments).rPr[1],
                                  Head(segments).rPr[2]))
             ELSE append(NewNode(h, (IF deleted THEN DelRunN(0, Head(segments).text,
                                                             Head(segments).rPr[1],
                                                             Head(segments).rPr[2])
                                     ELSE RunN(0, Head(segments).text, Head(segments).rPr[1],
                                               Head(segments).rPr[2]))),
                         parent, Len(h) + 1),
             Tail(segments), parent, deleted, Append(els, Len(h) + 1))

\* b is [E, elements, old_pos, ins_inherit_pos]: an EQUAL segment
equal_elements(b, text, char_format_map, sr) ==
    [E |-> [b.E EXCEPT !.heap = sr.heap], elements |-> b.elements \o sr.els,
     old_pos |-> b.old_pos + Len(text), ins_inherit_pos |-> b.old_pos + Len(text)]

\* a DELETE segment: t is the w:del made by _create_track_change_tag
delete_element(b, text, char_format_map, t) ==
    [E |-> [t.E EXCEPT !.heap =
                segment_runs(t.E.heap,
                             split_by_formatting(text, char_format_map, b.old_pos, 0, <<>>),
                             t.el, TRUE, <<>>).heap],
     elements |-> Append(b.elements, t.el),
     old_pos |-> b.old_pos + Len(text), ins_inherit_pos |-> b.old_pos]

\* an INSERT segment: t is the w:ins made by _create_track_change_tag
insert_element(b, text, char_format_map, t) ==
    [E |-> [t.E EXCEPT !.heap =
                segment_runs(t.E.heap,
                             <<[text |-> text,
                                rPr |-> rpr_at(char_format_map, b.ins_inherit_pos)]>>,
                             t.el, FALSE, <<>>).heap],
     elements |-> Append(b.elements, t.el),
     old_pos |-> b.old_pos, ins_inherit_pos |-> b.ins_inherit_pos]

\* the loop of _build_diff_elements
RECURSIVE diff_elements(_, _, _)
diff_elements(b, diffs, char_format_map) ==
    IF diffs = <<>> THEN b
    ELSE IF Head(diffs).text = <<>> THEN diff_elements(b, Tail(diffs), char_format_map)
    ELSE IF Head(diffs).op = 0
    THEN diff_elements(
             equal_elements(b, Head(diffs).text, char_format_map,
                 segment_runs(b.E.heap,
                     split_by_formatting(Head(diffs).text, char_format_map, b.old_pos,
                                         0, <<>>),
                     0, FALSE, <<>>)),
             Tail(diffs), char_format_map)
    ELSE IF Head(diffs).op = -1
    THEN diff_elements(delete_element(b, Head(diffs).text, char_format_map,
                                      create_track_change_tag(b.E, "del")),
                       Tail(diffs), char_format_map)
    ELSE diff_elements(insert_element(b, Head(diffs).text, char_format_map,
                                      create_track_change_tag(b.E, "ins")),
                       Tail(diffs), char_format_map)

\* _build_diff_elements: [E, elements, ...]
build_diff_elements(E, diffs, char_format_map) ==
    diff_elements([E |-> E, elements |-> <<>>, old_pos |-> 0, ins_inherit_pos |-> 0],
                  diffs, char_format_map)

\* PlainTextIndex.__init__: plain_text and _plain_to_full
plain_spans(m) == SelectSeq(m.spans, LAMBDA s : s.run # 0)

plain_text(m) == Concat([k \in 1..Len(plain_spans(m)) |-> plain_spans(m)[k].text])

plain_to_full(m) ==
    Concat([k \in 1..Len(plain_spans(m)) |->
               [c \in 1..Len(plain_spans(m)[k].text) |-> plain_spans(m)[k].start + c - 1]])

\* PlainTextIndex._search: the three strategies, the start alone
plain_search(text, target_text) == find_match_index([full_text |-> text], target_text)[1]

\* PlainTextIndex._map_range
map_range(to_full, plain_start, plain_len) ==
    IF to_full = <<>> THEN <<-1, 0>>
    ELSE << to_full[plain_start + 1],
            to_full[Min(plain_start + plain_len - 1, Len(to_full) - 1) + 1] + 1
                - to_full[plain_start + 1] >>

\* PlainTextIndex.find_match
plain_find_match(m, target_text) ==
    IF plain_search(plain_text(m), target_text) = -1 THEN <<-1, 0>>
    ELSE map_range(plain_to_full(m), plain_search(plain_text(m), target_text),
                   Len(target_text))

\* RedlineEngine.apply_edits on a list of one edit: [E, ret]
rebuilt_if_applied(r) ==
    IF r.ret = "True" THEN [E |-> Rebuild(r.E, "raw"), ret |-> r.ret] ELSE r

engine_apply_edits(E, edit) ==
    IF edit.idx # -1 THEN apply_single_edit_indexed(E, edit)
    ELSE rebuilt_if_applied(apply_single_edit_heuristic(Rebuild(E, "raw"), edit))

\* _delegate_with_match
delegate_with_match(E, edit, which, start_idx) ==
    engine_apply_edits(E, ProxyEdit(edit.target_text, edit.new_text, start_idx, "", which))

\* what _apply_edit_with_word_diff did: [E, ret, via, ...]; via is
\* "engine" (delegated), "skip" or "diff"
Delegated(r) ==
    [E |-> r.E, ret |-> r.ret, via |-> "engine", target_runs |-> <<>>, original |-> <<>>,
     clean_new_text |-> <<>>, elements |-> <<>>]

Skipped(E) ==
    [E |-> E, ret |-> "False", via |-> "skip", target_runs |-> <<>>, original |-> <<>>,
     clean_new_text |-> <<>>, elements |-> <<>>]

\* step 1: the raw mapper, the clean mapper, the plain-text index:
\* [E, which, at]
plain_match(E, target_text) ==
    [E |-> E, which |-> "raw", at |-> plain_find_match(E.m, target_text)]

clean_or_plain(E, target_text, clean) ==
    IF clean[1] # -1 THEN [E |-> E, which |-> "clean", at |-> clean]
    ELSE plain_match(Use(E, "raw"), target_text)

word_diff_match(E, target_text, raw) ==
    IF raw[1] # -1 THEN [E |-> E, which |-> "raw", at |-> raw]
    ELSE clean_or_plain(Use(ensure_clean(E), "clean"), target_text,
                        find_match_index(ensure_clean(E).cm, target_text))

RECURSIVE insert_all(_, _, _, _)
insert_all(h, parent, k, elements) ==
    IF elements = <<>> THEN h
    ELSE insert_all(insert(h, parent, k, Head(elements)), parent, k + 1, Tail(elements))

RECURSIVE remove_runs(_, _)
remove_runs(h, runs) ==
    IF runs = <<>> THEN h
    ELSE remove_runs(remove(h, getparent(h, Head(runs)), Head(runs)), Tail(runs))

\* steps 11 and 12: the new elements go before the first target run, the
\* target runs are removed, the mapper that matched is rebuilt and the
\* clean mapper is dropped
dom_surgery(b, which, target_runs, original, clean_new_text) ==
    [E |-> [Rebuild([b.E EXCEPT !.heap =
                        remove_runs(insert_all(b.E.heap, getparent(b.E.heap, target_runs[1]),
                                               index(b.E.heap,
                                                     getparent(b.E.heap, target_runs[1]),
                                                     target_runs[1]),
                                               b.elements),
                                    target_runs)],
                    which)
            EXCEPT !.cm = NoMapper],
     ret |-> "True", via |-> "diff", target_runs |-> target_runs, original |-> original,
     clean_new_text |-> clean_new_text, elements |-> b.elements]

\* step 10; "list(parent)" raises when the first target run has no parent
word_diff_build(b, which, target_runs, original, clean_new_text) ==
    IF b.elements = <<>> THEN Skipped(b.E)
    ELSE IF getparent(b.E.heap, target_runs[1]) = 0
    THEN [E |-> b.E, ret |-> "Raise", via |-> "diff", target_runs |-> target_runs,
          original |-> original, clean_new_text |-> clean_new_text, elements |-> b.elements]
    ELSE dom_surgery(b, which, target_runs, original, clean_new_text)

\* steps 7 to 9: the safety check on the diff
word_diff_checked(r, edit, f, diffs, original, clean_new_text) ==
    IF Concat([k \in 1..Len(SelectSeq(diffs, LAMBDA d : d.op >= 0)) |->
                  SelectSeq(diffs, LAMBDA d : d.op >= 0)[k].text]) # clean_new_text
    THEN Delegated(delegate_with_match(r.E, Edit(edit.target_text, clean_new_text, -1),
                                       f.which, f.at[1]))
    ELSE word_diff_build(build_diff_elements(r.E, diffs,
                                             build_char_format_map(r.E.heap, r.runs)),
                         f.which, r.runs, original, clean_new_text)

\* step 6 and the checks on clean_new_text; original is the content of
\* the target runs, w:delText included (ghost)
word_diff_texts(r, edit, f, runs_plain_text, clean_new_text) ==
    IF \E k \in 1..Len(clean_new_text) : clean_new_text[k] = "\n"
    THEN Delegated(delegate_with_match(r.E, Edit(edit.target_text, clean_new_text, -1),
                                       f.which, f.at[1]))
    ELSE IF runs_plain_text = clean_new_text THEN Skipped(r.E)
    ELSE word_diff_checked(r, edit, f, diff_words(runs_plain_text, clean_new_text),
             Concat([k \in 1..Len(r.runs) |-> get_run_text(r.E.heap, r.runs[k])]),
             clean_new_text)

\* steps 4 and 5: r is what find_target_runs_by_index gave, [E, runs]
word_diff_runs(r, edit, f) ==
    IF r.runs = <<>> THEN Skipped(r.E)
    ELSE IF Cardinality({getparent(r.E.heap, r.runs[k]) : k \in 1..Len(r.runs)} \ {0}) > 1
    THEN Delegated(engine_apply_edits(r.E, edit))
    ELSE word_diff_texts(r, edit, f,
             Concat([k \in 1..Len(r.runs) |-> run_text(r.E.heap, r.runs[k])]),
             strip_redundant_clause_number(strip_formatting_markers(edit.new_text),
                                           getparent(r.E.heap, r.runs[1])))

\* steps 2 and 3
word_diff_found(edit, f, context) ==
    IF f.at[1] = -1 THEN Skipped(f.E)
    ELSE IF context.run # 0 /\ context.ins_id # 0 THEN Delegated(engine_apply_edits(f.E, edit))
    ELSE IF edit.new_text = <<>> THEN Delegated(engine_apply_edits(f.E, edit))
    ELSE word_diff_runs(find_target_runs_by_index(Use(f.E, f.which), f.which,
                                                  f.at[1], f.at[2]),
                        edit, f)

word_diff_context(edit, f) ==
    word_diff_found(edit, f,
        IF f.at[1] = -1 THEN NoSpan
        ELSE get_context_at_range(Mp(f.E, f.which), f.at[1], f.at[1] + f.at[2]))

word_diff_normalized(E, edit) ==
    IF edit.target_text = <<>> THEN Delegated(engine_apply_edits(E, edit))
    ELSE word_diff_context(edit,
             word_diff_match(Use(E, "raw"), edit.target_text,
                             find_match_index(E.m, edit.target_text)))

\* _apply_edit_with_word_diff
apply_edit_with_word_diff(E, edit) == word_diff_normalized(E, normalize_edit_whitespace(edit))

\* the edits the pipeline is given for a document; the new texts are
\* single lines
WordDiffPool(d) ==
    IF d = DocPlain
    THEN { H(<<"c", "d">>, <<"X", "Y">>), H(<<"A", "B", " ", "c", "d">>, <<"A", "B", " ", "x">>),
           H(<<"c", "d">>, <<"*", "*", "X", "*", "*">>), H(<<"e", "f">>, <<>>),
           H(<<"z", "z">>, <<"X">>), H(<<"A", "B">>, <<"A", "B">>), H(<<>>, <<"x">>),
           H(<<"e", "f">>, <<"e", "f", " ", "x">>),
           H(<<"A", "B", "\t", "c", "d">>, <<"c", "d">>) }
    ELSE IF d = DocBold
    THEN { H(<<"c", "d">>, <<"X", "Y">>), H(<<"*", "*", "a", "b">>, <<"X">>),
           H(<<"a", "b", " ", "c", "d">>, <<"a", "b", " ", "_", "X", "_">>) }
    ELSE IF d = DocIns
    THEN { H(<<"c", "d">>, <<"X", "Y">>), H(<<"A", "B">>, <<"X">>),
           H(<<"A", "B", " ", "c", "d", " ", "e", "f">>, <<"A", "B", " ", "e", "f">>),
           H(<<"e", "f">>, <<"e", " ", "f">>) }
    ELSE IF d = DocDel
    THEN { H(<<"c", "d">>, <<"X", "Y">>), H(<<"A", "B", " ", " ", "e", "f">>, <<"A", "B", " ", "x">>),
           H(<<"g", "h">>, <<"X">>), H(<<"e", "f", " ", "g", "h">>, <<"g", "h">>) }
    ELSE { H(<<"c", "d">>, <<"X", "Y">>), H(<<"X", "Y">>, <<"Y", "Z">>),
           H(<<"e", "f">>, <<"x">>), H(<<"C", "D">>, <<"C", " ", "D">>) }

\* the pipeline hands one edit to _apply_edit_with_word_diff
ApplyEditWithWordDiff(edit) ==
    /\ pc = "idle"
    /\ ops < MaxOps
    /\ \E r \in {apply_edit_with_word_diff(EngineState, edit)} :
           /\ SetEngineState(r.E)
           /\ result' = IF r.ret = "True" THEN <<1, 0>>
                        ELSE IF r.ret = "False" THEN <<0, 1>> ELSE result
           /\ trace' = Append(trace, [edit |-> edit, ret |-> r.ret, via |-> r.via,
                                      target_runs |-> r.target_runs,
                                      original |-> r.original,
                                      clean_new_text |-> r.clean_new_text,
                                      elements |-> r.elements,
                                      before |-> heap])
    /\ batch' = <<edit>>
    /\ ops' = ops + 1
    /\ UNCHANGED <<pc, indexed_edits, unindexed_edits, applied, skipped, doc, text0>>
    /\ UNCHANGED <<fn_vars, comment_vars, pipeline_vars>>

WordDiffNext == \E edit \in WordDiffPool(doc) : ApplyEditWithWordDiff(edit)

WordDiffSpec == Init /\ [][WordDiffNext]_vars

-----------------------------------------------------------------------------
(* ingest.py: the text handed to the model.  A paragraph is read by a loop  *)
(* of its own over iter_paragraph_content; st is [parts, active_ins,        *)
(* active_del, active_comments, deferred, pending_text, wrappers], where    *)
(* active_ins and active_del are dicts kept as lists of [id, author] in     *)
(* insertion order.  The documents carry no comment bodies, so comments_map *)
(* is empty.                                                                *)

\* adeu.utils.docx.apply_formatting_to_segments
apply_formatting_to_segments(text, prefix, suffix) ==
    IF prefix = <<>> /\ suffix = <<>> THEN text
    ELSE IF text = <<>> THEN <<>>
    ELSE IF \A k \in 1..Len(text) : text[k] # "\n" THEN prefix \o text \o suffix
    ELSE Join([k \in 1..Len(split_nl(text, <<>>)) |->
                  IF split_nl(text, <<>>)[k] # <<>>
                  THEN prefix \o split_nl(text, <<>>)[k] \o suffix ELSE <<>>],
              <<"\n">>)

\* ingest._get_wrappers
ingest_get_wrappers(active_ins, active_del, active_comments) ==
    IF active_del # <<>> THEN << <<"{", "-", "-">>, <<"-", "-", "}">> >>
    ELSE IF active_ins # <<>> THEN << <<"{", "+", "+">>, <<"+", "+", "}">> >>
    ELSE IF active_comments # {} THEN << <<"{", "=", "=">>, <<"=", "=", "}">> >>
    ELSE << <<>>, <<>> >>

\* ingest._build_merged_meta_block: the change lines of every state, the
\* insertions of a state before its deletions; no comment is rendered
\* ("if cid not in comments_map: return")
ingest_build_merged_meta_block(states_list) ==
    Join(change_lines(Concat([k \in 1..Len(states_list) |->
                                 states_list[k].ins \o states_list[k].del]), {}),
         <<"\n">>)

\* "active_ins[item.id] = item"
dict_set(d, e) ==
    IF \E k \in 1..Len(d) : d[k].id = e.id
    THEN [k \in 1..Len(d) |-> IF d[k].id = e.id THEN e ELSE d[k]]
    ELSE Append(d, e)

\* "active_ins.pop(item.id, None)"
dict_pop(d, id) == SelectSeq(d, LAMBDA e : e.id # id)

\* "parts.append(f'{s_tok}{pending_text}{e_tok}')" and the buffer is cleared
ingest_flush(st) ==
    IF st.pending_text # <<>>
    THEN [st EXCEPT !.parts = @ \o st.wrappers[1] \o st.pending_text \o st.wrappers[2],
                    !.pending_text = <<>>, !.wrappers = NoWrappers]
    ELSE st

\* the segment joins the buffer, or the buffer is flushed and started anew
ingest_buffer(st, seg, new_wrappers) ==
    IF st.pending_text # <<>> /\ new_wrappers = st.wrappers
    THEN [st EXCEPT !.pending_text = @ \o seg]
    ELSE [ingest_flush(st) EXCEPT !.pending_text = seg, !.wrappers = new_wrappers]

ingest_meta(st, meta_block) ==
    [st EXCEPT !.parts = IF meta_block # <<>>
                         THEN @ \o <<"{", ">", ">">> \o meta_block \o <<"<", "<", "}">>
                         ELSE @,
               !.deferred = <<>>]

\* "3. Handle Metadata"
ingest_after_run(items, i, st) ==
    IF (st.active_ins # <<>> \/ st.active_del # <<>>)
       /\ lookahead(items, i + 1, st.active_ins # <<>>, st.active_del # <<>>)
    THEN st
    ELSE ingest_meta(ingest_flush(st), ingest_build_merged_meta_block(st.deferred))

ingest_defer(st) ==
    [st EXCEPT !.deferred = Append(@, [ins |-> st.active_ins, del |-> st.active_del,
                                       comments |-> st.active_comments])]

\* a Run item with a segment that is not empty
ingest_segment(items, i, st, seg, clean_view) ==
    IF clean_view THEN ingest_buffer(st, seg, NoWrappers)
    ELSE ingest_after_run(items, i,
             ingest_defer(ingest_buffer(st, seg,
                 ingest_get_wrappers(st.active_ins, st.active_del, st.active_comments))))

\* a Run item
ingest_run(h, items, i, st, clean_view) ==
    IF clean_view /\ st.active_del # <<>> THEN st
    ELSE IF apply_formatting_to_segments(get_run_text(h, items[i].run),
                                         get_run_style_markers(h, items[i].run)[1],
                                         get_run_style_markers(h, items[i].run)[2]) = <<>>
    THEN st
    ELSE ingest_segment(items, i, st,
             apply_formatting_to_segments(get_run_text(h, items[i].run),
                                          get_run_style_markers(h, items[i].run)[1],
                                          get_run_style_markers(h, items[i].run)[2]),
             clean_view)

\* a DocxEvent item: "Update State" on the flushed buffer
ingest_event(it, st) ==
    IF it.type = "start" THEN [st EXCEPT !.active_comments = @ \cup {it.id}]
    ELSE IF it.type = "end" THEN [st EXCEPT !.active_comments = @ \ {it.id}]
    ELSE IF it.type = "ins_start"
    THEN [st EXCEPT !.active_ins = dict_set(@, [id |-> it.id, author |-> it.author])]
    ELSE IF it.type = "ins_end" THEN [st EXCEPT !.active_ins = dict_pop(@, it.id)]
    ELSE IF it.type = "del_start"
    THEN [st EXCEPT !.active_del = dict_set(@, [id |-> it.id, author |-> it.author])]
    ELSE IF it.type = "del_end" THEN [st EXCEPT !.active_del = dict_pop(@, it.id)]
    ELSE st

RECURSIVE ingest_items(_, _, _, _, _)
ingest_items(h, items, i, st, clean_view) ==
    IF i > Len(items) \/ Len(st.parts) < 0 THEN st
    ELSE ingest_items(h, items, i + 1,
             IF items[i].kind = "run" THEN ingest_run(h, items, i, st, clean_view)
             ELSE ingest_event(items[i], ingest_flush(st)),
             clean_view)

\* "Final Flush" and the metadata still deferred
ingest_final(st) ==
    IF st.deferred # <<>> THEN ingest_meta(st, ingest_build_merged_meta_block(st.deferred))
    ELSE st

\* ingest._build_paragraph_text
build_paragraph_text(h, paragraph, clean_view) ==
    ingest_final(ingest_flush(
        ingest_items(h, iter_paragraph_content(h, paragraph), 1,
                     [parts |-> <<>>, active_ins |-> <<>>, active_del |-> <<>>,
                      active_comments |-> {}, deferred |-> <<>>, pending_text |-> <<>>,
                      wrappers |-> NoWrappers],
                     clean_view))).parts

RECURSIVE extract_blocks(_, _, _)
RECURSIVE extract_table(_, _, _)

\* the text of one block item; a table without text is not appended
block_texts(h, item, clean_view) ==
    IF h[item].tag = "p"
    THEN << get_paragraph_prefix(h, item) \o build_paragraph_text(h, item, clean_view) >>
    ELSE IF extract_table(h, item, clean_view) # <<>>
    THEN << extract_table(h, item, clean_view) >>
    ELSE <<>>

\* ingest._extract_blocks
extract_blocks(h, container, clean_view) ==
    Join(Concat([k \in 1..Len(iter_block_items(h, container)) |->
                    block_texts(h, iter_block_items(h, container)[k], clean_view)]),
         NL2)

\* one row: the cells joined with " | "
row_text(h, row, clean_view) ==
    Join([k \in 1..Len(SelectSeq(h[row].kids, LAMBDA n : h[n].tag = "tc")) |->
             extract_blocks(h, SelectSeq(h[row].kids, LAMBDA n : h[n].tag = "tc")[k],
                            clean_view)],
         <<" ", "|", " ">>)

\* ingest._extract_table
extract_table(h, table, clean_view) ==
    Join([k \in 1..Len(SelectSeq(h[table].kids, LAMBDA n : h[n].tag = "tr")) |->
             row_text(h, SelectSeq(h[table].kids, LAMBDA n : h[n].tag = "tr")[k], clean_view)],
         <<"\n">>)

\* extract_text_from_stream, and prepare before the context header: the
\* parts that gave text, joined with a blank line
extract_text(h, clean_view) ==
    Join(SelectSeq([k \in 1..Len(iter_document_parts(h)) |->
                       extract_blocks(h, iter_document_parts(h)[k], clean_view)],
                   LAMBDA part_text : part_text # <<>>),
         NL2)

\* extract_text_from_stream(stream, clean_view=clean_view) on the document
\* as it is now
CallExtractText(clean_view) ==
    /\ pc = "idle"
    /\ call' = [fn |-> "extract_text_from_stream", args |-> <<heap, clean_view>>,
                ret |-> extract_text(heap, clean_view)]
    /\ UNCHANGED <<engine_vars, comment_vars, pipeline_vars>>

IngestNext ==
    \/ /\ call = NoCall
       /\ \E clean_view \in BOOLEAN : CallExtractText(clean_view)
    \/ /\ call = NoCall
       /\ WordDiffNext
    \/ FnReturn

IngestSpec == Init /\ [][IngestNext]_vars

-----------------------------------------------------------------------------
(* styler.py: the Styler on word/document.xml.  The tree is the element     *)
(* tree of above; a paragraph may hold a "pPr" with a "numPr", an "ind"     *)
(* (its id is w:left) and a "spacing" (its id is w:after); a run's b is the *)
(* w:b of its rPr.  A fix or a warning is a record that names the           *)
(* paragraph and what was found.                                            *)

UpperAZ ==
    <<"A", "B", "C", "D", "E", "F", "G", "H", "I", "J", "K", "L", "M",
      "N", "O", "P", "Q", "R", "S", "T", "U", "V", "W", "X", "Y", "Z">>

LowerAZ ==
    <<"a", "b", "c", "d", "e", "f", "g", "h", "i", "j", "k", "l", "m",
      "n", "o", "p", "q", "r", "s", "t", "u", "v", "w", "x", "y", "z">>

Digits == <<"0", "1", "2", "3", "4", "5", "6", "7", "8", "9">>

is_upper(c) == \E k \in 1..Len(UpperAZ) : UpperAZ[k] = c
is_lower(c) == \E k \in 1..Len(LowerAZ) : LowerAZ[k] = c
is_digit(c) == \E k \in 1..Len(Digits) : Digits[k] = c

\* str.lower
str_lower(text) ==
    [k \in 1..Len(text) |->
        IF is_upper(text[k]) THEN LowerAZ[IndexOf(UpperAZ, text[k]) + 1] ELSE text[k]]

\* str.isupper
str_isupper(s) ==
    /\ \E k \in 1..Len(s) : is_upper(s[k])
    /\ \A k \in 1..Len(s) : ~is_lower(s[k])

\* str.istitle: an uppercase letter only after an uncased character, a
\* lowercase letter only after a cased one
str_istitle(s) ==
    /\ \E k \in 1..Len(s) : is_upper(s[k]) \/ is_lower(s[k])
    /\ \A k \in 1..Len(s) :
           /\ is_upper(s[k]) => (k = 1 \/ ~(is_upper(s[k - 1]) \/ is_lower(s[k - 1])))
           /\ is_lower(s[k]) => (k > 1 /\ (is_upper(s[k - 1]) \/ is_lower(s[k - 1])))

\* str.startswith
startswith(text, prefix) == Slice(text, 0, Len(prefix)) = prefix

\* the length of the match of "\d+" at the start of text, 0 when none
RECURSIVE lead_digits(_)
lead_digits(text) ==
    IF text # <<>> /\ is_digit(Head(text)) THEN 1 + lead_digits(Tail(text)) ELSE 0

\* int() of a text of digits
RECURSIVE to_int(_)
to_int(digits) ==
    IF digits = <<>> THEN 0
    ELSE 10 * to_int(SubSeq(digits, 1, Len(digits) - 1))
             + IndexOf(Digits, digits[Len(digits)])

\* Styler._get_paragraphs: the paragraphs that are children of the body
get_paragraphs(h) == SelectSeq(h[BodyPart(h)].kids, LAMBDA n : h[n].tag = "p")

\* element.findall(".//w:<tag>")
findall_deep(h, el, tag) == SelectSeq(Descendants(h, el), LAMBDA n : h[n].tag = tag)

\* element.findall("w:<tag>")
findall_child(h, el, tag) == SelectSeq(h[el].kids, LAMBDA n : h[n].tag = tag)

\* element.find("w:<tag>"), 0 is None
find_child(h, el, tag) ==
    IF findall_child(h, el, tag) = <<>> THEN 0 ELSE findall_child(h, el, tag)[1]

\* "''.join(t.text or '' for t in el.findall('.//w:t'))"
t_text(h, el) ==
    Concat([k \in 1..Len(findall_deep(h, el, "r")) |-> run_text(h, findall_deep(h, el, "r")[k])])

\* "''.join(t.text or '' for t in el.findall('.//w:delText'))"
del_text(h, el) ==
    Concat([k \in 1..Len(findall_deep(h, el, "r")) |->
               IF h[findall_deep(h, el, "r")[k]].dt THEN h[findall_deep(h, el, "r")[k]].text
               ELSE <<>>])

\* Styler._get_para_text
styler_para_text(h, para) == t_text(h, para)

\* Styler.is_vibelegal_insertion: the second test can only succeed when the
\* first one has
is_vibelegal_insertion(h, para, author) ==
    \E k \in 1..Len(findall_child(h, para, "ins")) :
        h[findall_child(h, para, "ins")[k]].author = author

\* "re.match(pattern, text, re.IGNORECASE)" for the heading patterns: the
\* words of the first pattern need a blank after them
HeadingWordsThenBlank ==
    {<<"a", "r", "t", "i", "c", "l", "e">>, <<"s", "e", "c", "t", "i", "o", "n">>,
     <<"p", "a", "r", "t">>, <<"s", "c", "h", "e", "d", "u", "l", "e">>,
     <<"e", "x", "h", "i", "b", "i", "t">>, <<"a", "n", "n", "e", "x">>}

HeadingWords ==
    {<<"d", "e", "f", "i", "n", "i", "t", "i", "o", "n">>,
     <<"i", "n", "t", "e", "r", "p", "r", "e", "t", "a", "t", "i", "o", "n">>,
     <<"r", "e", "c", "i", "t", "a", "l">>,
     <<"b", "a", "c", "k", "g", "r", "o", "u", "n", "d">>,
     <<"p", "a", "r", "t", "i", "e", "s">>, <<"t", "e", "r", "m", "s">>,
     <<"c", "o", "n", "d", "i", "t", "i", "o", "n", "s">>,
     <<"o", "b", "l", "i", "g", "a", "t", "i", "o", "n", "s">>,
     <<"r", "e", "p", "r", "e", "s", "e", "n", "t", "a", "t", "i", "o", "n", "s">>,
     <<"w", "a", "r", "r", "a", "n", "t", "i", "e", "s">>,
     <<"c", "o", "n", "f", "i", "d", "e", "n", "t", "i", "a", "l">>,
     <<"n", "o", "n", "-", "d", "i", "s", "c", "l", "o", "s", "u", "r", "e">>,
     <<"g", "o", "v", "e", "r", "n", "i", "n", "g", " ", "l", "a", "w">>,
     <<"j", "u", "r", "i", "s", "d", "i", "c", "t", "i", "o", "n">>}

\* Styler.detect_section_header, on the stripped text
section_header(text) ==
    IF Len(text) > 60 THEN FALSE
    ELSE IF \E w \in HeadingWordsThenBlank :
                /\ startswith(str_lower(text), w)
                /\ Len(text) > Len(w)
                /\ isspace(text[Len(w) + 1])
    THEN TRUE
    ELSE IF \E w \in HeadingWords : startswith(str_lower(text), w) THEN TRUE
    ELSE IF text # <<>> /\ text[Len(text)] = ":"
    THEN str_isupper(strip(SubSeq(text, 1, Len(text) - 1)))
            \/ str_istitle(strip(SubSeq(text, 1, Len(text) - 1)))
    ELSE FALSE

detect_section_header(text) == section_header(strip(text))

\* "re.match(r'^\d+[\.\)]', text)" on the stripped text
manual_number_at(text, n) == n >= 1 /\ Len(text) > n /\ text[n + 1] \in {".", ")"}

\* Styler._is_numbered_manual
is_numbered_manual(text) == manual_number_at(strip(text), lead_digits(strip(text)))

\* the ends of the matches of "\d+(?:\.\d+)*" at the start of text
RECURSIVE number_ends(_, _)
number_ends(text, e) ==
    {e} \cup (IF Len(text) > e + 1 /\ text[e + 1] = "." /\ lead_digits(From(text, e + 1)) > 0
              THEN number_ends(text, e + 1 + lead_digits(From(text, e + 1)))
              ELSE {})

\* Styler._extract_manual_number: the longest number that a "." or a ")"
\* follows; <<>> is None
manual_number(text, ends) ==
    IF ends = {} THEN <<>>
    ELSE Slice(text, 0, CHOOSE e \in ends : \A e2 \in ends : e2 <= e)

extract_manual_number(text) ==
    IF lead_digits(strip(text)) = 0 THEN <<>>
    ELSE manual_number(strip(text),
             {e \in number_ends(strip(text), lead_digits(strip(text))) :
                 Len(strip(text)) > e /\ strip(text)[e + 1] \in {".", ")"}})

\* Styler._has_numPr
has_numPr(h, para) ==
    find_child(h, para, "pPr") # 0 /\ find_child(h, find_child(h, para, "pPr"), "numPr") # 0

\* "re.match(r'^\d+\.?\s', text)"
numbered_start(text, n) ==
    /\ n >= 1
    /\ \/ Len(text) > n /\ isspace(text[n + 1])
       \/ Len(text) > n + 1 /\ text[n + 1] = "." /\ isspace(text[n + 2])

\* Styler._is_numbered_clause
is_numbered_clause(h, para) ==
    \/ numbered_start(styler_para_text(h, para), lead_digits(styler_para_text(h, para)))
    \/ has_numPr(h, para) /\ Len(styler_para_text(h, para)) < 100

\* Styler._is_body_paragraph
is_body_paragraph(h, para) ==
    /\ Len(styler_para_text(h, para)) >= 50
    /\ ~numbered_start(styler_para_text(h, para), lead_digits(styler_para_text(h, para)))

\* the value of a child of pPr, 0 when there is none (None, or a value
\* that is not used because it is falsy)
pPr_value(h, para, tag) ==
    IF find_child(h, para, "pPr") = 0 THEN 0
    ELSE IF find_child(h, find_child(h, para, "pPr"), tag) = 0 THEN 0
    ELSE h[find_child(h, find_child(h, para, "pPr"), tag)].id

\* Styler._get_left_indent, Styler._get_spacing_after
get_left_indent(h, para) == pPr_value(h, para, "ind")
get_spacing_after(h, para) == pPr_value(h, para, "spacing")

\* Styler._is_run_bold; run 0 is None
is_run_bold(h, run) == run # 0 /\ h[run].b

\* "re.match(r'^\d+\.\s*\w', text)"
clause_start(text, n) ==
    /\ n >= 1
    /\ Len(text) > n
    /\ text[n + 1] = "."
    /\ lstrip(From(text, n + 1)) # <<>>
    /\ \E c \in {lstrip(From(text, n + 1))[1]} : is_upper(c) \/ is_lower(c) \/ is_digit(c) \/ c = "_"

\* Styler.detect_role
role_of(h, para, text) ==
    IF text # <<>> /\ text[Len(text)] = ":" /\ Len(text) < 60 THEN "SECTION_HEAD"
    ELSE IF clause_start(text, lead_digits(text)) /\ Len(text) < 50 THEN "CLAUSE"
    ELSE IF has_numPr(h, para) THEN "BULLET"
    ELSE IF Len(text) > 50 THEN "BODY"
    ELSE "UNKNOWN"

detect_role(h, para) == role_of(h, para, strip(styler_para_text(h, para)))

\* "re.match(r'^\d+[\.\)]?\s*$', text.strip())"
number_only(text, n) ==
    n >= 1 /\ (Len(text) = n \/ (Len(text) = n + 1 /\ text[n + 1] \in {".", ")"}))

is_number_text(text) == number_only(strip(text), lead_digits(strip(text)))

\* Styler._count_number_track_changes
count_number_track_changes(h, para) ==
    << Len(SelectSeq(findall_deep(h, para, "del"), LAMBDA d : is_number_text(del_text(h, d)))),
       Len(SelectSeq(findall_deep(h, para, "ins"), LAMBDA d : is_number_text(t_text(h, d)))) >>

\* reference_formats: has_pattern and title_is_bold of 'inline_title',
\* is_bold of 'section_header', left_indent of 'body_indent' and space_after
\* of 'spacing' (0 is None)
ReferenceFormats(has_pattern, title_is_bold, header_is_bold, left_indent, space_after) ==
    [has_pattern |-> has_pattern, title_is_bold |-> title_is_bold,
     header_is_bold |-> header_is_bold, left_indent |-> left_indent,
     space_after |-> space_after]

\* the first of the paragraphs that passes Test, 0 when none does
first_para(paras, Test(_)) ==
    IF SelectSeq(paras, Test) = <<>> THEN 0 ELSE SelectSeq(paras, Test)[1]

\* the paragraphs detect_reference_formats looks at
original_paragraphs(h, author) ==
    SelectSeq(get_paragraphs(h), LAMBDA p : ~is_vibelegal_insertion(h, p, author))

\* "Detect inline title pattern": a numbered clause whose first run has a
\* w:t with a "." in its first 30 characters
has_inline_title(h, p) ==
    /\ is_numbered_clause(h, p)
    /\ findall_deep(h, p, "r") # <<>>
    /\ run_text(h, findall_deep(h, p, "r")[1]) # <<>>
    /\ find(Slice(run_text(h, findall_deep(h, p, "r")[1]), 0, 30), <<".">>) # -1

reference_of(h, header, title, body, spaced) ==
    ReferenceFormats(title # 0,
                     title # 0 /\ is_run_bold(h, findall_deep(h, title, "r")[1]),
                     IF header = 0 THEN TRUE
                     ELSE \E k \in 1..Len(findall_deep(h, header, "r")) :
                              is_run_bold(h, findall_deep(h, header, "r")[k]),
                     IF body = 0 THEN 0 ELSE get_left_indent(h, body),
                     IF spaced = 0 THEN 0 ELSE get_spacing_after(h, spaced))

references_in(h, paras) ==
    reference_of(h,
        first_para(paras, LAMBDA p : detect_section_header(styler_para_text(h, p))),
        first_para(paras, LAMBDA p : has_inline_title(h, p)),
        first_para(paras, LAMBDA p : is_body_paragraph(h, p) /\ get_left_indent(h, p) > 0),
        first_para(paras, LAMBDA p : get_spacing_after(h, p) > 0))

\* Styler.detect_reference_formats
detect_reference_formats(h, author) == references_in(h, original_paragraphs(h, author))

\* no original_reference is given
NoReference == ReferenceFormats(FALSE, FALSE, FALSE, -1, -1)

\* Styler.__init__: S is [heap, author, ref, fixes, warnings, last_num]
Styler(h, author, original_reference) ==
    [heap |-> h, author |-> author,
     ref |-> IF original_reference # NoReference THEN original_reference
             ELSE detect_reference_formats(h, author),
     fixes |-> <<>>, warnings |-> <<>>, last_num |-> 0]

Fix(S, i, what) == [S EXCEPT !.fixes = Append(@, [p |-> i, fix |-> what])]

Warn(S, i, what) == [S EXCEPT !.warnings = Append(@, [p |-> i, warning |-> what])]

\* "_add_bold_to_run" on each of the runs
RECURSIVE add_bold(_, _)
add_bold(h, runs) ==
    IF runs = <<>> THEN h ELSE add_bold([h EXCEPT ![Head(runs)].b = TRUE], Tail(runs))

\* "pPr.remove(numPr)" when there is one
remove_numPr(h, para) ==
    IF has_numPr(h, para)
    THEN remove(h, find_child(h, para, "pPr"),
                find_child(h, find_child(h, para, "pPr"), "numPr"))
    ELSE h

\* Styler._convert_to_bold_header
convert_to_bold_header(h, para) == add_bold(remove_numPr(h, para), findall_deep(h, para, "r"))

\* Styler.fix_manual_numbering, one paragraph: nothing is changed, the
\* overlap is listed among the fixes
manual_numbering_step(S, para, i, counts) ==
    IF is_numbered_manual(styler_para_text(S.heap, para)) /\ counts[1] + counts[2] > 1
    THEN Fix(S, i, IF is_vibelegal_insertion(S.heap, para, S.author)
                   THEN "numbering overlap detected (our insertion)"
                   ELSE "numbering overlap detected (original paragraph)")
    ELSE S

\* Styler.fix_section_header_format, one paragraph
section_header_step(S, para, i) ==
    IF ~detect_section_header(styler_para_text(S.heap, para)) THEN S
    ELSE IF ~is_vibelegal_insertion(S.heap, para, S.author)
    THEN IF has_numPr(S.heap, para)
         THEN Warn(S, i, "section header has bullet format (original paragraph)")
         ELSE S
    ELSE IF has_numPr(S.heap, para)
    THEN IF S.ref.header_is_bold
         THEN Fix([S EXCEPT !.heap = convert_to_bold_header(@, para)], i,
                  "converted BULLET->BOLD header")
         ELSE Fix([S EXCEPT !.heap = remove_numPr(@, para)], i, "removed BULLET from header")
    ELSE IF S.ref.header_is_bold
            /\ ~is_run_bold(S.heap, IF findall_deep(S.heap, para, "r") = <<>> THEN 0
                                    ELSE findall_deep(S.heap, para, "r")[1])
    THEN Fix([S EXCEPT !.heap = convert_to_bold_header(@, para)], i,
             "applied BOLD to section header")
    ELSE S

\* "re.match(r'^(\d+)\.(\d+)\.', text)": the second number with its ".",
\* <<>> when the text does not match
double_number(text, n1, n2) ==
    IF n1 >= 1 /\ Len(text) > n1 /\ text[n1 + 1] = "." /\ n2 >= 1
       /\ Len(text) > n1 + 1 + n2 /\ text[n1 + n2 + 2] = "."
    THEN Slice(text, n1 + 1, n1 + n2 + 2)
    ELSE <<>>

double_number_of(text) ==
    double_number(text, lead_digits(text), lead_digits(From(text, lead_digits(text) + 1)))

\* Styler._remove_duplicate_number_text: runs are the runs that are
\* children of the paragraph and start with dup_text
remove_duplicate_number_text(S, i, runs, dup_text) ==
    IF runs = <<>> THEN S
    ELSE Fix([S EXCEPT !.heap[runs[1]].text = lstrip(From(@, Len(dup_text)))], i,
             "removed duplicate number")

\* Styler.fix_double_numbering, one paragraph
double_numbering_step(S, para, i, dup_text, counts) ==
    IF dup_text = <<>> \/ counts[1] = 0 \/ counts[2] = 0 THEN S
    ELSE remove_duplicate_number_text(S, i,
             SelectSeq(findall_child(S.heap, para, "r"),
                       LAMBDA r : run_text(S.heap, r) # <<>>
                                  /\ startswith(run_text(S.heap, r), dup_text)),
             dup_text)

\* the runs _apply_bold_to_title makes bold: the runs with text that start
\* before title_end
RECURSIVE title_runs(_, _, _, _)
title_runs(h, runs, char_pos, title_end) ==
    IF runs = <<>> \/ char_pos >= title_end THEN <<>>
    ELSE IF run_text(h, Head(runs)) = <<>> THEN title_runs(h, Tail(runs), char_pos, title_end)
    ELSE <<Head(runs)>> \o title_runs(h, Tail(runs), char_pos + Len(run_text(h, Head(runs))),
                                      title_end)

\* Styler.fix_inline_title_bold, one paragraph
inline_title_step(S, para, i, text) ==
    IF ~is_vibelegal_insertion(S.heap, para, S.author) \/ ~is_numbered_clause(S.heap, para)
    THEN S
    ELSE IF Len(text) < 50
    THEN Fix([S EXCEPT !.heap = add_bold(@, findall_deep(S.heap, para, "r"))], i,
             "applied bold to heading")
    ELSE IF find(Slice(text, 0, 40), <<".">>) # -1
    THEN Fix([S EXCEPT !.heap = add_bold(@, title_runs(S.heap, findall_deep(S.heap, para, "r"),
                                                        0, find(text, <<".">>) + 1))],
             i, "applied bold to title")
    ELSE S

\* the child `tag' of the paragraph's pPr gets the value; the pPr and the
\* child are made when they are missing
with_pPr(h, para) ==
    IF find_child(h, para, "pPr") # 0 THEN h
    ELSE insert(NewNode(h, Elem("pPr", 0, <<>>)), para, 0, Len(h) + 1)

with_pPr_child(h, pPr, tag) ==
    IF find_child(h, pPr, tag) # 0 THEN h
    ELSE append(NewNode(h, Elem(tag, 0, <<>>)), pPr, Len(h) + 1)

set_child_value(h, pPr, tag, value) == [h EXCEPT ![find_child(h, pPr, tag)].id = value]

set_pPr_value(h, para, tag, value) ==
    set_child_value(with_pPr_child(with_pPr(h, para), find_child(with_pPr(h, para), para, "pPr"),
                                   tag),
                    find_child(with_pPr(h, para), para, "pPr"), tag, value)

\* Styler._set_left_indent, Styler._set_spacing(para, after=...)
set_left_indent(h, para, indent) == set_pPr_value(h, para, "ind", indent)
set_spacing(h, para, after) == set_pPr_value(h, para, "spacing", after)

\* Styler.fix_body_indentation, one paragraph
body_indentation_step(S, para, i) ==
    IF is_vibelegal_insertion(S.heap, para, S.author) /\ is_body_paragraph(S.heap, para)
       /\ get_left_indent(S.heap, para) # S.ref.left_indent
    THEN Fix([S EXCEPT !.heap = set_left_indent(@, para, S.ref.left_indent)], i, "set indent")
    ELSE S

\* Styler.fix_paragraph_spacing, one paragraph
paragraph_spacing_step(S, para, i) ==
    IF is_vibelegal_insertion(S.heap, para, S.author)
       /\ detect_role(S.heap, para) # "BULLET"
       /\ get_spacing_after(S.heap, para) # S.ref.space_after
    THEN Fix([S EXCEPT !.heap = set_spacing(@, para, S.ref.space_after)], i, "set space_after")
    ELSE S

\* the list_patterns of check_list_formatting, on the stripped text; the
\* documents here hold no bullet character, the third pattern is tried
\* with "-" and "*"
is_list_like(text) ==
    \/ Len(text) >= 3 /\ text[1] = "(" /\ is_lower(text[2]) /\ text[3] = ")"
    \/ /\ Len(text) >= 3
       /\ text[1] = "("
       /\ \E e \in 3..Len(text) :
              text[e] = ")" /\ \A k \in 2..(e - 1) : text[k] \in {"i", "v", "x"}
    \/ Len(text) >= 2 /\ text[1] \in {"-", "*"} /\ isspace(text[2])

\* Styler.check_list_formatting, one paragraph
list_formatting_step(S, para, i) ==
    IF is_vibelegal_insertion(S.heap, para, S.author)
       /\ is_list_like(strip(styler_para_text(S.heap, para)))
       /\ ~has_numPr(S.heap, para)
    THEN Warn(S, i, "appears to be list item but missing numPr formatting")
    ELSE S

\* Styler.check_clause_sequence, one paragraph: num_str is the manual
\* number, <<>> when there is none
clause_sequence_num(S, i, num) ==
    [(IF num = S.last_num THEN Warn(S, i, "Duplicate clause number")
      ELSE IF num > S.last_num + 1 THEN Warn(S, i, "Gap in numbering")
      ELSE S)
     EXCEPT !.last_num = num]

clause_sequence_step(S, i, num_str) ==
    IF num_str = <<>> \/ find(num_str, <<".">>) # -1 THEN S
    ELSE clause_sequence_num(S, i, to_int(num_str))

\* the keywords of check_section_placement that are expected 'at_end'; the
\* other keywords have no branch that warns
GoverningLaw == <<"g", "o", "v", "e", "r", "n", "i", "n", "g", " ", "l", "a", "w">>
Jurisdiction == <<"j", "u", "r", "i", "s", "d", "i", "c", "t", "i", "o", "n">>

placement_warning(S, i, text, keyword, total_paras) ==
    IF find(text, keyword) # -1 /\ 10 * i < 7 * total_paras
    THEN Warn(S, i, "usually near end") ELSE S

\* Styler.check_section_placement, one paragraph: "position < 0.7"
section_placement_step(S, i, text, total_paras) ==
    placement_warning(placement_warning(S, i, text, GoverningLaw, total_paras),
                      i, text, Jurisdiction, total_paras)

\* one paragraph of one pass
styler_step(pass, S, para, i, total_paras) ==
    IF pass = "fix_manual_numbering"
    THEN manual_numbering_step(S, para, i, count_number_track_changes(S.heap, para))
    ELSE IF pass = "fix_section_header_format" THEN section_header_step(S, para, i)
    ELSE IF pass = "fix_double_numbering"
    THEN double_numbering_step(S, para, i, double_number_of(styler_para_text(S.heap, para)),
                               count_number_track_changes(S.heap, para))
    ELSE IF pass = "fix_inline_title_bold"
    THEN inline_title_step(S, para, i, styler_para_text(S.heap, para))
    ELSE IF pass = "fix_body_indentation" THEN body_indentation_step(S, para, i)
    ELSE IF pass = "fix_paragraph_spacing" THEN paragraph_spacing_step(S, para, i)
    ELSE IF pass = "check_list_formatting" THEN list_formatting_step(S, para, i)
    ELSE IF pass = "check_clause_sequence"
    THEN clause_sequence_step(S, i, extract_manual_number(styler_para_text(S.heap, para)))
    ELSE section_placement_step(S, i, str_lower(styler_para_text(S.heap, para)), total_paras)

\* "for i, para in enumerate(paragraphs)"
RECURSIVE styler_loop(_, _, _, _)
styler_loop(pass, S, paragraphs, i) ==
    IF i >= Len(paragraphs) \/ Len(S.fixes) < 0 THEN S
    ELSE styler_loop(pass, styler_step(pass, S, paragraphs[i + 1], i, Len(paragraphs)),
                     paragraphs, i + 1)

\* a pass is left at once when the reference has nothing for it
pass_applies(pass, ref) ==
    IF pass = "fix_inline_title_bold" THEN ref.has_pattern /\ ref.title_is_bold
    ELSE IF pass = "fix_body_indentation" THEN ref.left_indent > 0
    ELSE IF pass = "fix_paragraph_spacing" THEN ref.space_after > 0
    ELSE TRUE

styler_pass(pass, S) ==
    IF pass_applies(pass, S.ref)
    THEN styler_loop(pass, [S EXCEPT !.last_num = 0], get_paragraphs(S.heap), 0)
    ELSE S

\* the passes of Styler.run, in its order
StylerPasses ==
    <<"fix_manual_numbering", "fix_section_header_format", "fix_double_numbering",
      "fix_inline_title_bold", "fix_body_indentation", "fix_paragraph_spacing",
      "check_list_formatting", "check_clause_sequence", "check_section_placement">>

RECURSIVE styler_passes(_, _)
styler_passes(S, passes) ==
    IF passes = <<>> \/ Len(S.fixes) < 0 THEN S
    ELSE styler_passes(styler_pass(Head(passes), S), Tail(passes))

\* Styler.run: StylerResult as [heap, fixes, warnings, ...]
styler_run(S) == styler_passes(S, StylerPasses)

\* an original bold header and an original indented body paragraph, then an
\* inserted header and an inserted body paragraph (the documents of
\* test_styler.py)
StyledDoc ==
    << Elem("doc", 0, <<2>>),
       Elem("body", 1, <<3, 7, 12, 15>>),
       ParaN(2, <<4, 6>>, "Normal"),
       Elem("pPr", 3, <<5>>),
       [Elem("spacing", 4, <<>>) EXCEPT !.id = 200],
       RunN(3, <<"T", "e", "r", "m", "s", ":">>, TRUE, FALSE),
       ParaN(2, <<8, 11>>, "Normal"),
       Elem("pPr", 7, <<9, 10>>),
       [Elem("ind", 8, <<>>) EXCEPT !.id = 720],
       [Elem("spacing", 8, <<>>) EXCEPT !.id = 200],
       RunN(7, <<"E", "a", "c", "h", " ", "p", "a", "r", "t", "y", " ", "s", "h", "a", "l", "l", " ", "k", "e", "e", "p", " ", "t", "h", "e", " ", "t", "e", "r", "m", "s", " ", "o", "f", " ", "t", "h", "i", "s", " ", "a", "g", "r", "e", "e", "m", "e", "n", "t", " ", "i", "n", " ", "s", "t", "r", "i", "c", "t", " ", "c", "o", "n", "f", "i", "d", "e", "n", "c", "e", ".">>, FALSE, FALSE),
       ParaN(2, <<13>>, "Normal"),
       ChgN("ins", 12, <<14>>, 1, EngineAuthor),
       RunN(13, <<"P", "a", "r", "t", "i", "e", "s", ":">>, FALSE, FALSE),
       ParaN(2, <<16>>, "Normal"),
       ChgN("ins", 15, <<17>>, 2, EngineAuthor),
       RunN(16, <<"T", "h", "e", " ", "s", "u", "p", "p", "l", "i", "e", "r", " ", "s", "h", "a", "l", "l", " ", "d", "e", "l", "i", "v", "e", "r", " ", "t", "h", "e", " ", "g", "o", "o", "d", "s", " ", "w", "i", "t", "h", "i", "n", " ", "t", "h", "i", "r", "t", "y", " ", "d", "a", "y", "s", " ", "o", "f", " ", "e", "a", "c", "h", " ", "o", "r", "d", "e", "r", ".">>, FALSE, FALSE) >>

\* a clause whose number the redline replaced: a deletion of "2." and an
\* insertion of "3." in front of the clause text
OverlapDoc ==
    << Elem("doc", 0, <<2>>),
       Elem("body", 1, <<3, 5>>),
       ParaN(2, <<4>>, "Normal"),
       RunN(3, <<"B", "a", "c", "k", "g", "r", "o", "u", "n", "d", ":">>, TRUE, FALSE),
       ParaN(2, <<6, 8, 10>>, "Normal"),
       ChgN("del", 5, <<7>>, 1, EngineAuthor),
       DelRunN(6, <<"2", ".">>, FALSE, FALSE),
       ChgN("ins", 5, <<9>>, 2, EngineAuthor),
       RunN(8, <<"3", ".">>, FALSE, FALSE),
       RunN(5, <<" ", "O", "b", "l", "i", "g", "a", "t", "i", "o", "n", "s">>, FALSE, FALSE) >>

\* an original numbered clause with a bold title, an inserted numbered
\* clause and an inserted list item
ClauseDoc ==
    << Elem("doc", 0, <<2>>),
       Elem("body", 1, <<3, 5, 8>>),
       ParaN(2, <<4>>, "Normal"),
       RunN(3, <<"1", ".", " ", "T", "e", "r", "m", "s">>, TRUE, FALSE),
       ParaN(2, <<6>>, "Normal"),
       ChgN("ins", 5, <<7>>, 1, EngineAuthor),
       RunN(6, <<"2", ".", " ", "P", "a", "y", "m", "e", "n", "t">>, FALSE, FALSE),
       ParaN(2, <<9>>, "Normal"),
       ChgN("ins", 8, <<10>>, 2, EngineAuthor),
       RunN(9, <<"(", "a", ")", " ", "i", "n", " ", "c", "a", "s", "h">>, FALSE, FALSE) >>

\* an original header that is a list item, a clause whose number another
\* reviewer replaced while its run keeps a number, an inserted header that
\* is a list item and an original clause
ReviewedDoc ==
    << Elem("doc", 0, <<2>>),
       Elem("body", 1, <<3, 7, 13, 18>>),
       ParaN(2, <<4, 6>>, "Normal"),
       Elem("pPr", 3, <<5>>),
       Elem("numPr", 4, <<>>),
       RunN(3, <<"G", "o", "v", "e", "r", "n", "i", "n", "g", " ", "L", "a", "w", ":">>, TRUE, FALSE),
       ParaN(2, <<8, 10, 12>>, "Normal"),
       ChgN("ins", 7, <<9>>, 1, AuthorA),
       RunN(8, <<"3", ".">>, FALSE, FALSE),
       ChgN("del", 7, <<11>>, 2, AuthorA),
       DelRunN(10, <<"2", ".">>, FALSE, FALSE),
       RunN(7, <<"3", ".", " ", "O", "b", "l", "i", "g", "a", "t", "i", "o", "n", "s">>, FALSE, FALSE),
       ParaN(2, <<14, 16>>, "Normal"),
       Elem("pPr", 13, <<15>>),
       Elem("numPr", 14, <<>>),
       ChgN("ins", 13, <<17>>, 3, EngineAuthor),
       RunN(16, <<"J", "u", "r", "i", "s", "d", "i", "c", "t", "i", "o", "n", ":">>, FALSE, FALSE),
       ParaN(2, <<19>>, "Normal"),
       RunN(18, <<"5", ".", " ", "N", "o", "t", "i", "c", "e", "s">>, FALSE, FALSE) >>

StylerDocs == {StyledDoc, OverlapDoc, ClauseDoc, ReviewedDoc}

\* the original_reference values a caller passes: none, or the formats
\* detected in one of the documents before it was redlined
StylerReferences ==
    {NoReference} \cup {detect_reference_formats(d, EngineAuthor) : d \in StylerDocs}

\* a Styler is made on the bytes of a redlined document; no engine is loaded
StylerInit ==
    /\ doc \in StylerDocs
    /\ heap = doc
    /\ current_id = 0
    /\ mapper = NoMapper
    /\ clean_mapper = NoMapper
    /\ pc = "idle"
    /\ indexed_edits = <<>>
    /\ unindexed_edits = <<>>
    /\ applied = 0
    /\ skipped = 0
    /\ result = <<>>
    /\ batch = <<>>
    /\ text0 = <<>>
    /\ trace = <<>>
    /\ log = <<>>
    /\ issued = <<>>
    /\ stale = FALSE
    /\ ops = 0
    /\ call = NoCall
    /\ comments_manager = CommentsManager(NoComments)
    /\ added = <<>>
    /\ PipelineInit

\* Styler(docx_bytes, author, original_reference).run() on the bytes the
\* last run returned (the document at first)
StylerRun(author, original_reference) ==
    /\ ops < MaxOps
    /\ \E S \in {styler_run(Styler(heap, author, original_reference))} :
           /\ heap' = S.heap
           /\ result' = <<S.fixes, S.warnings>>
           /\ trace' = Append(trace, [author |-> author, reference_formats |-> S.ref,
                                      before |-> heap, after |-> S.heap,
                                      fixes_applied |-> S.fixes, warnings |-> S.warnings])
    /\ ops' = ops + 1
    /\ UNCHANGED <<current_id, mapper, clean_mapper, pc, indexed_edits, unindexed_edits,
                   applied, skipped, doc, batch, text0, log, issued, stale>>
    /\ UNCHANGED <<fn_vars, comment_vars, pipeline_vars>>

StylerNext ==
    \E author \in {EngineAuthor, AuthorA}, original_reference \in StylerReferences :
        StylerRun(author, original_reference)

StylerSpec == StylerInit /\ [][StylerNext]_vars

-----------------------------------------------------------------------------
(* The comment store: add_comment on the comment parts of a package *)

MaxComments == 2

\* authors, as their words; the text of a comment
Authors == {<< <<"a", "b">> >>, << <<"a">>, <<"e", "b">> >>}

CommentText == <<"a", "b">>

\* the ids random.randint can draw, a few of them
ParaIds == {2, 4, 5}

DurableIds == {3, 6}

\* a thread whose replies point at the comment they answer: 3 answers 2,
\* 2 answers 1
Nested ==
    Parts(<<Comment(1, <<>>, 0, <<>>, 0, 1, <<"a">>), Comment(2, <<>>, 0, <<>>, 0, 2, <<"b">>),
            Comment(3, <<>>, 0, <<>>, 0, 3, <<"a">>)>>,
          <<CommentEx(1, 0, "0"), CommentEx(2, 1, "0"), CommentEx(3, 2, "0")>>,
          <<CommentId(1, 1), CommentId(2, 2), CommentId(3, 3)>>,
          <<CommentExtensible(1, 0), CommentExtensible(2, 0), CommentExtensible(3, 0)>>)

\* a thread as Word writes it: the replies 2 and 3 point at the root 1
Flat ==
    Parts(<<Comment(1, <<>>, 0, <<>>, 0, 1, <<"a">>), Comment(2, <<>>, 0, <<>>, 0, 2, <<"b">>),
            Comment(3, <<>>, 0, <<>>, 0, 3, <<"a">>)>>,
          <<CommentEx(1, 0, "0"), CommentEx(2, 1, "0"), CommentEx(3, 1, "1")>>,
          <<CommentId(1, 1), CommentId(2, 2), CommentId(3, 3)>>,
          <<CommentExtensible(1, 0), CommentExtensible(2, 0), CommentExtensible(3, 0)>>)

\* a package with the comments part only: paragraphs without ids, the
\* reply 2 linked by the legacy attribute
Legacy ==
    Parts(<<Comment(1, <<>>, 0, <<>>, 0, 0, <<"a">>), Comment(2, <<>>, 0, <<>>, 1, 0, <<"b">>)>>,
          <<>>, <<>>, <<>>)

Packages == {NoComments, Nested, Flat, Legacy}

CommentsInit ==
    /\ doc = DocPlain
    /\ EngineInit
    /\ call = NoCall
    /\ comments_manager \in {CommentsManager(parts) : parts \in Packages}
    /\ added = <<>>
    /\ PipelineInit

\* add_comment(author, text, parent_id); the clock is the number of the call
AddComment(author, text, parent_id, para_id, durable_id) ==
    /\ comments_manager' =
           add_comment(comments_manager, author, text, parent_id, Len(added) + 1,
                       para_id, durable_id)
    /\ added' = Append(added, [comment_id |-> comments_manager.next_id,
                               parent_id |-> parent_id, para_id |-> para_id,
                               durable_id |-> durable_id, now |-> Len(added) + 1,
                               before |-> comments_manager])
    /\ UNCHANGED <<engine_vars, fn_vars, pipeline_vars>>

CommentsNext ==
    /\ Len(added) < MaxComments
    /\ \E author \in Authors, parent_id \in 0..(comments_manager.next_id - 1),
          para_id \in ParaIds, durable_id \in DurableIds :
           AddComment(author, CommentText, parent_id, para_id, durable_id)

CommentsSpec == CommentsInit /\ [][CommentsNext]_vars

-----------------------------------------------------------------------------
(* Properties                                                               *)

\* the elements that are attached to the package, all parts
Attached(h) == {AllInTree(h)[k] : k \in 1..Len(AllInTree(h))}

RECURSIVE HasAncestor(_, _, _)
HasAncestor(h, n, tag) ==
    /\ h[n].parent # 0
    /\ (h[h[n].parent].tag = tag \/ HasAncestor(h, h[n].parent, tag))

DelInsideIns(h) == \E d \in Attached(h) : h[d].tag = "del" /\ HasAncestor(h, d, "ins")

\* the ids of the w:ins and w:del elements of a document, all parts
MarkerIds(h) == {h[n].id : n \in {x \in Attached(h) : h[x].tag \in {"ins", "del"}}}

\* the text a marker wraps
MarkerText(h, n) == Concat([k \in 1..Len(h[n].kids) |-> h[h[n].kids[k]].text])

Markers(h, tag, text) ==
    {n \in Attached(h) : h[n].tag = tag /\ MarkerText(h, n) = text}

LogicalText(h) == build_map(h, FALSE).full_text

CleanText(h) == build_map(h, TRUE).full_text

\* the tree after the same review action on every id in ids
Reviewed(h, ids, action) ==
    review_loop(h, [k \in 1..Len(ids) |-> [action |-> action, target_id |-> ids[k]]], 0, 0).heap

Occurrences(text, w) ==
    Cardinality({k \in 0..(Len(text) - Len(w)) : Slice(text, k, k + Len(w)) = w})

\* text with its first occurrence of w replaced by w2
Replaced(text, w, w2) ==
    Slice(text, 0, find(text, w)) \o w2 \o From(text, find(text, w) + Len(w))

\* apply_edits has returned from the only batch this engine was given
FirstBatchDone == pc = "idle" /\ batch # <<>> /\ ops = Len(batch)

\* C1: after apply_edits has processed a batch on a document that had no
\* deletion marker inside an insertion marker, no w:del element is a
\* descendant of a w:ins element.
C1_NoDelInsideIns == pc = "idle" => ~DelInsideIns(heap)

\* C2: the k-th id an engine issues is the highest id of the document at
\* construction plus k, no id is issued twice, and no issued id is the id
\* of a marker the document already had in any of its parts.
C2_IdsFreshAndIncreasing ==
    /\ \A k \in 1..Len(issued) : issued[k] = max_id(MarkerIds(doc) \cup {0}) + k
    /\ \A j, k \in 1..Len(issued) : j # k => issued[j] # issued[k]
    /\ \A k \in 1..Len(issued) : issued[k] \notin MarkerIds(doc)

\* a span list that starts at 0, in which every span ends at its start plus
\* the length of its text and starts where the previous one ends, and
\* whose texts concatenate to full_text
Contiguous(m) ==
    /\ m.spans # <<>> => m.spans[1].start = 0
    /\ \A k \in 1..Len(m.spans) : m.spans[k].end = m.spans[k].start + Len(m.spans[k].text)
    /\ \A k \in 2..Len(m.spans) : m.spans[k].start = m.spans[k - 1].end
    /\ Concat([k \in 1..Len(m.spans) |-> m.spans[k].text]) = m.full_text

\* the runs of the spans follow each other as they do in the tree
InDocumentOrder(h, m) ==
    \A j, k \in 1..Len(m.spans) :
        (j < k /\ m.spans[j].run # 0 /\ m.spans[k].run # 0)
            => IndexOf(AllInTree(h), m.spans[j].run) <= IndexOf(AllInTree(h), m.spans[k].run)

\* C3: after every _build_map, raw or clean view, the span list is in
\* document order, starts at 0, each span has end = start + len(text) and
\* starts where the previous one ends, and the span texts concatenate to
\* full_text.  The mappers the engine holds and a map built from the tree
\* of any reachable state are checked.
C3_SpansContiguous ==
    /\ Contiguous(mapper)
    /\ clean_mapper # NoMapper => Contiguous(clean_mapper)
    /\ Contiguous(build_map(heap, FALSE)) /\ InDocumentOrder(heap, build_map(heap, FALSE))
    /\ Contiguous(build_map(heap, TRUE)) /\ InDocumentOrder(heap, build_map(heap, TRUE))

\* C3 witness: a raw map of the document with a header, a heading and a
\* table, rebuilt after a modification left a deletion and an insertion
C3_Witness ==
    /\ doc = DocParts
    /\ applied >= 1
    /\ \E j, k \in 1..Len(mapper.spans) : mapper.spans[j].del_id # 0 /\ mapper.spans[k].ins_id # 0
    /\ \E k \in 1..Len(mapper.spans) : mapper.spans[k].text = <<" ", "|", " ">>

\* C4: a Deletion followed by ACCEPT on the ids it created gives a logical
\* text without the deleted text, and followed by REJECT on those ids gives
\* the logical text the document had before the edit.
C4_DeleteThenAcceptOrReject ==
    (FirstBatchDone /\ Len(batch) = 1 /\ batch[1].target_text # <<>>
        /\ batch[1].new_text = <<>> /\ applied = 1)
    => /\ find(LogicalText(Reviewed(heap, issued, "ACCEPT")), batch[1].target_text) = -1
       /\ LogicalText(Reviewed(heap, issued, "REJECT")) = text0

\* a single edit that replaces a word, found once in the document, by
\* another word with no common prefix or suffix
WordSwap(e) ==
    /\ e.idx = -1
    /\ e.target_text # <<>> /\ e.new_text # <<>>
    /\ \A k \in 1..Len(e.target_text) : ~isspace(e.target_text[k])
    /\ e.target_text[1] # e.new_text[1]
    /\ e.target_text[Len(e.target_text)] # e.new_text[Len(e.new_text)]
    /\ Occurrences(CleanText(doc), e.target_text) = 1

\* C5: the single edit {w -> w2} on a paragraph that contains w once gives
\* a clean-view text equal to the original with w replaced by w2, exactly
\* one deletion marker with text w and exactly one insertion marker with
\* text w2, the insertion right after the deletion.
C5_WordSwapMarkers ==
    (FirstBatchDone /\ Len(batch) = 1 /\ WordSwap(batch[1]))
    => /\ CleanText(heap) = Replaced(CleanText(doc), batch[1].target_text, batch[1].new_text)
       /\ Cardinality(Markers(heap, "del", batch[1].target_text)) = 1
       /\ Cardinality(Markers(heap, "ins", batch[1].new_text)) = 1
       /\ \E d \in Markers(heap, "del", batch[1].target_text),
             n \in Markers(heap, "ins", batch[1].new_text) :
              /\ getparent(heap, d) = getparent(heap, n)
              /\ index(heap, getparent(heap, n), n) = index(heap, getparent(heap, d), d) + 1

\* the ranges two targets have in a text overlap
Overlap(text, t1, t2) ==
    /\ find(text, t1) # -1 /\ find(text, t2) # -1
    /\ find(text, t1) < find(text, t2) + Len(t2)
    /\ find(text, t2) < find(text, t1) + Len(t1)

\* C6: of two edits of a batch whose target ranges overlap, the engine
\* applies one (the longer target, processed first) and skips the other.
C6_OverlapSkipped ==
    (FirstBatchDone /\ Len(batch) = 2 /\ batch[1].idx = -1 /\ batch[2].idx = -1
        /\ batch[1].target_text # batch[2].target_text
        /\ Overlap(text0, batch[1].target_text, batch[2].target_text))
    => applied = 1 /\ skipped = 1

\* C7: apply_edits never raises, and when it has returned applied +
\* skipped is the number of edits of the batch.
C7_AlwaysReturnsCounts ==
    /\ pc # "raised"
    /\ (pc = "idle" /\ batch # <<>>) => applied + skipped = Len(batch)

\* C8: within one batch every edit with a pre-computed offset is applied
\* before any edit that needs matching, the offset edits in descending
\* offset order, the matched edits in descending target-length order, and
\* every matched edit is matched against a raw mapper rebuilt after the
\* previous applied edit.
C8_BatchOrder ==
    /\ \A j, k \in 1..Len(trace) :
          j < k =>
            /\ ~(trace[j].phase = "heuristic" /\ trace[k].phase = "indexed")
            /\ (trace[j].phase = "indexed" /\ trace[k].phase = "indexed")
                   => trace[j].edit.idx >= trace[k].edit.idx
            /\ (trace[j].phase = "heuristic" /\ trace[k].phase = "heuristic")
                   => Len(trace[j].edit.target_text) >= Len(trace[k].edit.target_text)
    /\ \A k \in 1..Len(trace) : trace[k].phase = "heuristic" => trace[k].fresh
    /\ pc = "heuristic" => mapper = build_map(heap, FALSE)

\* C8 witness: a batch that lists a shorter target before a longer one,
\* both applied, the longer one first
C8_Witness ==
    /\ Len(batch) = 2 /\ Len(trace) = 2
    /\ Len(batch[1].target_text) < Len(batch[2].target_text)
    /\ trace[1].phase = "heuristic" /\ trace[1].edit = batch[2] /\ trace[1].ret = "True"
    /\ trace[2].phase = "heuristic" /\ trace[2].edit = batch[1] /\ trace[2].ret = "True"

\* the ranges [offset, offset + len(target)) of two edits are disjoint
Disjoint(e1, e2) ==
    \/ e1.idx + Len(e1.target_text) <= e2.idx
    \/ e2.idx + Len(e2.target_text) <= e1.idx

\* C9: in a batch of pre-computed-offset edits with pairwise disjoint
\* ranges, every edit that deletes text deletes exactly the text its range
\* addressed in the logical text at batch start.
C9_OffsetsStayValid ==
    (/\ FirstBatchDone
     /\ Len(batch) >= 2
     /\ Len(log) = Len(batch)
     /\ \A k \in 1..Len(batch) : batch[k].idx # -1
     /\ \A j, k \in 1..Len(batch) : j # k => Disjoint(batch[j], batch[k]))
    => \A k \in 1..Len(log) :
          (log[k].edit.target_text # <<>> /\ log[k].ret = "True")
              => log[k].deleted = Slice(text0, log[k].edit.idx,
                                        log[k].edit.idx + Len(log[k].edit.target_text))

\* C10: no edit is matched or resolved against a mapper, raw or clean,
\* that differs from a map of the tree as it is at that moment.
C10_NoStaleMapperUse == ~stale


\* the number of non-overlapping occurrences of a token in a text, left to right
RECURSIVE Tokens(_, _)
Tokens(text, tok) ==
    IF Len(text) < Len(tok) THEN 0
    ELSE IF SubSeq(text, 1, Len(tok)) = tok
         THEN 1 + Tokens(SubSeq(text, Len(tok) + 1, Len(text)), tok)
         ELSE Tokens(Tail(text), tok)

Balanced(text) == Tokens(text, <<"*", "*">>) % 2 = 0 /\ Tokens(text, <<"_">>) % 2 = 0

\* C16: the prefix and the suffix that _trim_common_context keeps out of
\* the change each hold an even number of "**" tokens and an even number
\* of "_" characters.
C16_TrimBalanced ==
    call.fn = "_trim_common_context" =>
        /\ Balanced(Slice(call.args[1], 0, call.ret[1]))
        /\ Balanced(From(call.args[1], Len(call.args[1]) - call.ret[2]))

\* a call whose common prefix, cut at a word boundary, held an unclosed
\* delimiter and was moved back
C16_Witness ==
    /\ call.fn = "_trim_common_context"
    /\ call.args[1] # <<>> /\ call.args[2] # <<>>
    /\ ~Balanced(Slice(call.args[1], 0,
            word_prefix(call.args[1], call.args[2],
                common_prefix(call.args[1], call.args[2], 0,
                    Min(Len(call.args[1]), Len(call.args[2]))))))
    /\ Balanced(Slice(call.args[1], 0, call.ret[1]))

\* a position of a text that lies strictly inside a word
MidWord(text, k) ==
    0 < k /\ k < Len(text) /\ ~isspace(text[k]) /\ ~isspace(text[k + 1])

\* C17: the change that is left after the heuristic path has trimmed the
\* common prefix and suffix of (old, new) begins and ends at a word
\* boundary of old and of new.
C17_TrimAtWordBoundaries ==
    (call.fn = "narrow" /\ call.ret # NoEdit) =>
        LET old == call.args[1]
            new == call.args[2]
            p == call.ret.idx
            t == Len(call.ret.target_text)
            n == Len(call.ret.new_text)
        IN  /\ ~MidWord(old, p) /\ ~MidWord(old, p + t)
            /\ ~MidWord(new, p) /\ ~MidWord(new, p + n)


\* the offsets at which a needle occurs verbatim in a text
Verbatim(text, needle) ==
    {k \in 0..(Len(text) - Len(needle)) : SubSeq(text, k + 1, k + Len(needle)) = needle}

\* C15: find_match_index answers with the leftmost verbatim occurrence of
\* the needle and its length whenever there is one, by the exact strategy;
\* the quote-normalised strategy answers only when there is no verbatim
\* occurrence, the fuzzy one only when the first two fail, and the answer
\* is (-1, 0) when all three fail.
C15_MatchStrategiesInOrder ==
    call.fn = "find_match_index" =>
        LET text == call.args[1]
            needle == call.args[2]
            norm == Verbatim(replace_smart_quotes(text), replace_smart_quotes(needle))
        IN  /\ Verbatim(text, needle) # {} =>
                   /\ call.ret.by = "exact"
                   /\ call.ret.at[1] \in Verbatim(text, needle)
                   /\ \A k \in Verbatim(text, needle) : call.ret.at[1] <= k
                   /\ call.ret.at[2] = Len(needle)
            /\ call.ret.by = "quotes" => Verbatim(text, needle) = {} /\ call.ret.at[1] \in norm
            /\ call.ret.by = "fuzzy" => Verbatim(text, needle) = {} /\ norm = {}
                                         /\ call.ret.at[1] >= 0
            /\ call.ret.by = "none" => call.ret.at = <<-1, 0>>
            /\ call.ret.at[1] = -1 => call.ret.by = "none"

\* a verbatim occurrence that lies to the right of a quote-normalised one
C15_Witness ==
    /\ call.fn = "find_match_index"
    /\ call.ret.by = "exact"
    /\ call.args[2] # <<>>
    /\ \E k \in Verbatim(replace_smart_quotes(call.args[1]),
                          replace_smart_quotes(call.args[2])) : k < call.ret.at[1]


\* apply_edits has returned from a batch of one edit, the only one this
\* engine was given
OneEditDone == FirstBatchDone /\ Len(batch) = 1

\* where the only edit of the batch matched the document the engine was
\* built on: [which, at], at = <<start, length>>
MatchOf(e) ==
    IF e.idx # -1 THEN [which |-> "raw", at |-> <<e.idx, Len(e.target_text)>>]
    ELSE IF find_match_index(build_map(doc, FALSE), e.target_text)[1] # -1
    THEN [which |-> "raw", at |-> find_match_index(build_map(doc, FALSE), e.target_text)]
    ELSE [which |-> "clean", at |-> find_match_index(build_map(doc, TRUE), e.target_text)]

IsSubstring(w, text) == \E k \in 0..(Len(text) - Len(w)) : Slice(text, k, k + Len(w)) = w

\* C11: an edit whose target is found only in the clean view is applied to
\* the text matched there: the edit handed on is addressed inside the
\* matched range and targets a part of the matched text, the runs deleted
\* hold nothing but matched text, and the clean text afterwards is the
\* clean text before with the matched range replaced by the new text.
C11_CleanMatchAppliedAtMatch ==
    (/\ OneEditDone
     /\ batch[1].idx = -1 /\ batch[1].target_text # <<>>
     /\ MatchOf(batch[1]).which = "clean"
     /\ MatchOf(batch[1]).at[1] # -1) =>
        LET at == MatchOf(batch[1]).at
            matched == Slice(CleanText(doc), at[1], at[1] + at[2])
        IN  /\ result = <<1, 0>>
            /\ \A k \in 1..Len(log) :
                   /\ IsSubstring(log[k].deleted, matched)
                   /\ log[k].kind # "nested" =>
                          /\ IsSubstring(log[k].edit.target_text, matched)
                          /\ at[1] <= log[k].edit.idx
                          /\ log[k].edit.idx + Len(log[k].edit.target_text) <= at[1] + at[2]
            /\ CleanText(heap) = Slice(CleanText(doc), 0, at[1]) \o batch[1].new_text
                                      \o From(CleanText(doc), at[1] + at[2])

\* the operation kind of a residual (old, new)
KindOf(old, new) ==
    IF old = <<>> /\ new = <<>> THEN "none"
    ELSE IF old = <<>> THEN "insert"
    ELSE IF new = <<>> THEN "delete"
    ELSE "modify"

\* C18: what _apply_single_edit_indexed does to the document follows from
\* the residual texts of the edit it is given (the proxy edit on the matched
\* path, the edit itself on the offset path): an insertion, a deletion or a
\* modification, and an edit whose texts are both empty leaves the
\* document as it was.  (An edit inside an insertion marker is replaced as
\* a whole and is not looked at here.)
C18_KindFromResidual ==
    /\ \A k \in 1..Len(log) :
           (log[k].ret = "True" /\ log[k].kind # "nested") =>
               /\ log[k].kind = KindOf(log[k].edit.target_text, log[k].edit.new_text)
               /\ log[k].edit.op \in {"", CASE log[k].kind = "insert" -> "INSERTION"
                                           [] log[k].kind = "delete" -> "DELETION"
                                           [] OTHER -> "MODIFICATION"}
    /\ (OneEditDone /\ batch[1].target_text = <<>> /\ batch[1].new_text = <<>>) =>
           heap = doc

\* C19: an edit with an empty target and a new text is skipped by the
\* unindexed path and leaves the document unchanged; with an offset it is
\* applied as an insertion (every document here has a text run).
C19_EmptyTargetInsertion ==
    /\ \A k \in 1..Len(trace) :
           (trace[k].edit.target_text = <<>> /\ trace[k].edit.new_text # <<>>) =>
               IF trace[k].phase = "heuristic" THEN trace[k].ret = "False"
               ELSE trace[k].ret = "True"
    /\ (OneEditDone /\ batch[1].target_text = <<>> /\ batch[1].new_text # <<>>) =>
           IF batch[1].idx = -1
           THEN heap = doc /\ result = <<0, 1>>
           ELSE /\ result = <<1, 0>>
                /\ Len(log) = 1 /\ log[1].kind = "insert"
                /\ Markers(heap, "ins", batch[1].new_text) \ Markers(doc, "ins", batch[1].new_text) # {}

\* the ids of the insertion markers in the raw view of the document the
\* engine was built on
InsertionIds ==
    {sp.ins_id : sp \in {build_map(doc, FALSE).spans[k] : k \in 1..Len(build_map(doc, FALSE).spans)}}
        \ {0}

RangeInside(s, l, id) ==
    LET spans == build_map(doc, FALSE).spans
        over == {k \in 1..Len(spans) : spans[k].run # 0 /\ spans[k].end > s /\ spans[k].start < s + l}
    IN  l > 0 /\ over # {} /\ \A k \in over : spans[k].ins_id = id

\* the text and the first offset of the insertion id in the raw view
InsertionText(id) ==
    Concat([k \in 1..Len(SelectSeq(build_map(doc, FALSE).spans, LAMBDA sp : sp.ins_id = id)) |->
               SelectSeq(build_map(doc, FALSE).spans, LAMBDA sp : sp.ins_id = id)[k].text])

InsertionStart(id) == SelectSeq(build_map(doc, FALSE).spans, LAMBDA sp : sp.ins_id = id)[1].start

\* C20: an edit whose matched range lies inside an insertion marker
\* removes every element carrying that marker's id and puts one fresh
\* insertion marker in its place, holding the old insertion's text with the
\* matched part replaced by the new text (no marker when that text is
\* empty), whether the edit was matched or came with an offset.
C20_NestedEditReplacesInsertion ==
    \A id \in InsertionIds :
        (/\ OneEditDone
         /\ MatchOf(batch[1]).which = "raw"
         /\ RangeInside(MatchOf(batch[1]).at[1], MatchOf(batch[1]).at[2], id)) =>
            LET at == MatchOf(batch[1]).at
                rel == at[1] - InsertionStart(id)
                text == Slice(InsertionText(id), 0, rel) \o batch[1].new_text
                            \o From(InsertionText(id), rel + at[2])
                old == CHOOSE n \in Attached(doc) : doc[n].tag = "ins" /\ doc[n].id = id
                fresh == {n \in Attached(heap) : heap[n].tag = "ins" /\ n > Len(doc)}
            IN  /\ result = <<1, 0>>
                /\ ~\E n \in Attached(heap) : heap[n].tag \in {"ins", "del"} /\ heap[n].id = id
                /\ IF text = <<>> THEN fresh = {}
                   ELSE /\ Cardinality(fresh) = 1
                        /\ \A n \in fresh :
                               /\ MarkerText(heap, n) = text
                               /\ heap[n].parent = doc[old].parent
                               /\ index(heap, heap[n].parent, n) = index(doc, doc[old].parent, old)

\* the comments added, as indices of the history
Added == 1..Len(added)

\* the top-most ancestor of a paragraph in the extended linkage, followed
\* for at most n levels
RECURSIVE TopMost(_, _, _)
TopMost(extended, para_id, n) ==
    LET up == {extended[k].paraIdParent : k \in {j \in 1..Len(extended) :
                   extended[j].paraId = para_id /\ extended[j].paraIdParent # 0}}
    IN  IF n = 0 \/ up = {} THEN para_id
        ELSE TopMost(extended, CHOOSE q \in up : TRUE, n - 1)

\* C12: a reply to a comment that has a paragraph id is recorded so that the
\* thread-root lookup of the reply gives the top-most ancestor of the
\* comment it answers, so that a reply to X and a reply to any descendant of
\* X resolve to the same root, however deep the chain
C12_RepliesShareThreadRoot ==
    \A k \in Added :
        LET r == added[k]
            target == find_para_id_for_comment(r.before, r.parent_id)
        IN  (k = Len(added) /\ r.parent_id # 0 /\ target # 0) =>
                find_thread_root_para_id(comments_manager, r.comment_id) =
                    TopMost(r.before.extended_part, target, Len(r.before.extended_part))

\* C13: a comment added with a parent has the legacy parent attribute and an
\* entry of the extended part that names a parent paragraph
C13_BothLinkagesRecorded ==
    \A k \in Added :
        LET r == added[k]
        IN  (k = Len(added) /\ r.parent_id # 0) =>
                /\ \E i \in 1..Len(comments_manager.comments_part) :
                       /\ comments_manager.comments_part[i].id = r.comment_id
                       /\ comments_manager.comments_part[i].p = r.parent_id
                /\ \E i \in 1..Len(comments_manager.extended_part) :
                       /\ comments_manager.extended_part[i].paraId = r.para_id
                       /\ comments_manager.extended_part[i].paraIdParent # 0

\* the entries of a part that satisfy a test
Entries(part, Test(_)) == {i \in 1..Len(part) : Test(part[i])}

\* C14: every comment added has exactly one entry in the body, the extended
\* part, the ids part and the extensible part, joined by its paragraph id
\* and its durable id
C14_FourPartsConsistent ==
    \A k \in Added :
        LET r == added[k]
        IN  /\ Cardinality(Entries(comments_manager.comments_part,
                    LAMBDA c : c.id = r.comment_id /\ c.para_id = r.para_id)) = 1
            /\ Cardinality(Entries(comments_manager.extended_part,
                    LAMBDA x : x.paraId = r.para_id)) = 1
            /\ Cardinality(Entries(comments_manager.ids_part,
                    LAMBDA x : x.paraId = r.para_id)) = 1
            /\ Cardinality(Entries(comments_manager.ids_part,
                    LAMBDA x : x.paraId = r.para_id /\ x.durableId = r.durable_id)) = 1
            /\ Cardinality(Entries(comments_manager.extensible_part,
                    LAMBDA x : x.durableId = r.durable_id /\ x.dateUtc = r.now)) = 1

\* the same span list and the same logical text
SameMap(m1, m2) == m1.spans = m2.spans /\ m1.full_text = m2.full_text

C30_DeletedRunsUntouched ==
    \A n \in Attached(heap) :
        heap[n].tag \in {"ins", "del"} => ~HasAncestor(heap, n, "del")

\* the text with the range of every edit replaced by the edit's new text,
\* the edits taken from the last to the first
RECURSIVE ReplaceRanges(_, _)
ReplaceRanges(text, edits) ==
    IF edits = <<>> THEN text
    ELSE LET e == edits[Len(edits)]
         IN  ReplaceRanges(Slice(text, 0, e.idx) \o e.new_text
                               \o From(text, Min(Len(text), e.idx + Len(e.target_text))),
                           SubSeq(edits, 1, Len(edits) - 1))

\* C29: every edit generate_edits_from_text returns has its target text at
\* its offset in the original text, the ranges of the edits are pairwise
\* disjoint, and replacing every range by the new text of its edit turns
\* the original text into the modified text
C29_OffsetsAddressTargets ==
    call.fn = "generate_edits_from_text" =>
        LET original_text == call.args[1]
            modified_text == call.args[2]
            edits == call.ret
        IN  /\ \A k \in 1..Len(edits) :
                   Slice(original_text, edits[k].idx, edits[k].idx + Len(edits[k].target_text))
                       = edits[k].target_text
            /\ \A j, k \in 1..Len(edits) : j < k => Disjoint(edits[j], edits[k])
            /\ ReplaceRanges(original_text, edits) = modified_text

\* apply_edits has returned a result
Returned == returned.fn = "apply_edits" /\ returned.raised = ""

\* C26: apply_edits leaves no stored engine behind once it has taken one;
\* without a stored engine and without fallback bytes it raises
\* RuntimeError and changes nothing; a stored engine is applied even when
\* fallback bytes are given; and the bytes used as the styling reference
\* are the bytes of the document of the engine that is applied
C26_OneStoredEngine ==
    /\ Returned => stored_engine = NoEngine
    /\ (returned.fn = "apply_edits" /\ returned.before.engine = NoEngine
            /\ returned.fallback_bytes = None) =>
           /\ returned.raised = "RuntimeError"
           /\ Before = returned.before
    /\ (Returned /\ returned.before.engine # NoEngine) =>
           returned.engine = returned.before.engine.bytes
    /\ (Returned /\ returned.reference # None) => returned.reference = returned.engine

\* C28: apply_edits reports one status per submitted edit, the status at
\* position k is that of the k-th submitted edit, and applied + skipped is
\* the number of submitted edits
C28_OneStatusPerEdit ==
    Returned =>
        /\ Len(returned.out.statuses) = Len(returned.edits)
        /\ returned.out.applied + returned.out.skipped = Len(returned.edits)
        /\ \A k \in 1..Len(returned.edits) :
               k <= Len(returned.out.statuses) =>
                   (returned.out.statuses[k] <=>
                        \E j \in 1..Len(returned.out.applied_edits) :
                            returned.out.applied_edits[j] = returned.edits[k])

\* the elements with a tag and an id, in the main document
Anchors(tag, id) == xpath_tag_id(heap, tag, id)

\* the comment new_id has a range and a reference, the range starts and
\* ends where that of the comment parent_id does
AnchoredLike(new_id, parent_id) ==
    /\ Len(Anchors("commentRangeStart", new_id)) = 1
    /\ Len(Anchors("commentRangeEnd", new_id)) = 1
    /\ Len(Anchors("commentReference", new_id)) = 1
    /\ Anchors("commentRangeStart", parent_id) # <<>>
    /\ Anchors("commentRangeEnd", parent_id) # <<>>

\* C27: apply_review_actions returns counts that add up to the number of
\* actions; an action with a comment id is no ACCEPT or REJECT that is
\* applied, an action with a change id no REPLY that is applied; and a
\* REPLY counted as applied answers a comment that exists, its comment is
\* recorded under the thread of the target and anchored to the target's
\* range
C27_ReviewActionsCounted ==
    (doc = DocComment /\ result # <<>>) =>
        /\ result[1] + result[2] = Len(batch)
        /\ \A k \in 1..Len(trace) :
               LET t == trace[k]
               IN  t.success =>
                       /\ t.act.action \in {"ACCEPT", "REJECT"} => t.act.prefix # "Com:"
                       /\ t.act.action = "REPLY" =>
                              /\ t.act.prefix # "Chg:"
                              /\ \E i \in 1..Len(t.before.comments_part) :
                                     t.before.comments_part[i].id = t.act.target_id
                              /\ find_thread_root_para_id(comments_manager, t.new_id)
                                     = find_thread_root_para_id(t.before, t.act.target_id)
                              /\ AnchoredLike(t.new_id, t.act.target_id)

\* the text of the elements a word diff wrote, read with the runs of
\* `without' ("ins" or "del") left out
RegionText(h, elements, without) ==
    Concat([k \in 1..Len(elements) |->
               IF h[elements[k]].tag = "r" THEN get_run_text(h, elements[k])
               ELSE IF h[elements[k]].tag = without THEN <<>>
               ELSE Concat([j \in 1..Len(h[elements[k]].kids) |->
                               get_run_text(h, h[elements[k]].kids[j])])])

LastWordDiff == trace[Len(trace)]

\* C21: after the word-diff path has written a diff, the region it wrote
\* reads as the replacement text when its deletions are left out and as the
\* original text of the target runs when its insertions are left out, and
\* the elements it wrote are in the document
C21_WordDiffKeepsBothTexts ==
    (trace # <<>> /\ LastWordDiff.via = "diff" /\ LastWordDiff.ret = "True") =>
        /\ RegionText(heap, LastWordDiff.elements, "del") = LastWordDiff.clean_new_text
        /\ RegionText(heap, LastWordDiff.elements, "ins") = LastWordDiff.original
        /\ \A k \in 1..Len(LastWordDiff.elements) :
               LastWordDiff.elements[k] \in Attached(heap)


\* C23: the text extract_text_from_stream returns for a document and a
\* view is the full_text of a DocumentMapper built for that document and view
C23_ExtractedTextIsMapperText ==
    call.fn = "extract_text_from_stream" =>
        call.ret = build_map(call.args[1], call.args[2]).full_text


\* the paragraphs of the body that hold no insertion of the author, each
\* with its position among the paragraphs
OriginalParagraphs(h, author) ==
    {i \in 1..Len(get_paragraphs(h)) : ~is_vibelegal_insertion(h, get_paragraphs(h)[i], author)}

\* the paragraph and everything in it are the same in h and in g
SameContent(h, g, para) ==
    /\ g[para] = h[para]
    /\ \A k \in 1..Len(Descendants(h, para)) :
           g[Descendants(h, para)[k]] = h[Descendants(h, para)[k]]

\* C24: Styler.run is idempotent: a run on the output of a run that had the
\* same author and the same reference formats reports no fix and leaves the
\* document as it was.
C24_StylerRunIdempotent ==
    \A k \in 2..Len(trace) :
        (/\ "fixes_applied" \in DOMAIN trace[k]
         /\ trace[k].author = trace[k - 1].author
         /\ trace[k].reference_formats = trace[k - 1].reference_formats) =>
            /\ trace[k].fixes_applied = <<>>
            /\ trace[k].after = trace[k].before

\* C25: Styler.run does not modify original content: a paragraph that holds
\* no insertion of the configured author keeps its text, the formatting of
\* its runs and its paragraph properties, and no fix is reported for it.
C25_StylerKeepsOriginalContent ==
    \A k \in 1..Len(trace) :
        "fixes_applied" \in DOMAIN trace[k] =>
            \A i \in OriginalParagraphs(trace[k].before, trace[k].author) :
                /\ SameContent(trace[k].before, trace[k].after,
                               get_paragraphs(trace[k].before)[i])
                /\ \A f \in 1..Len(trace[k].fixes_applied) :
                       trace[k].fixes_applied[f].p # i - 1


=============================================================================
